---- MODULE Spec2Model ----
(***************************************************************************)
(* A model of the git-wiki content storage engine: the plain store         *)
(* (Wiki, src/app.py), the versioned store (WikiGit, src/wiki/wikigit.py   *)
(* and src/app.py) and the account store (UserManager, src/app.py).        *)
(*                                                                         *)
(* Text is modelled as a sequence of one-character strings, so that the    *)
(* path functions of os.path (join, normpath, dirname, commonprefix) are   *)
(* computed character by character as the library computes them.           *)
(***************************************************************************)
EXTENDS Integers, Sequences, FiniteSets, TLC

\* ---------------------------------------------------------------- text

\* s[i..] and s[..i] of a character sequence.
Drop(s, n) == SubSeq(s, n + 1, Len(s))

Take(s, n) == SubSeq(s, 1, n)

\* str.startswith
StartsWith(s, p) == Len(p) <= Len(s) /\ Take(s, Len(p)) = p

\* str.split('/') : the segments between slashes, empty ones kept.
RECURSIVE SplitSlash(_)
SplitSlash(s) ==
  IF \A i \in 1..Len(s) : s[i] # "/"
    THEN <<s>>
    ELSE LET i == CHOOSE k \in 1..Len(s) :
                    s[k] = "/" /\ \A j \in 1..(k - 1) : s[j] # "/"
         IN  <<Take(s, i - 1)>> \o SplitSlash(Drop(s, i))

\* '/'.join(comps)
RECURSIVE JoinSlash(_)
JoinSlash(comps) ==
  IF comps = <<>> THEN <<>>
  ELSE IF Len(comps) = 1 THEN comps[1]
  ELSE comps[1] \o <<"/">> \o JoinSlash(Tail(comps))

\* The record file extension appended by Wiki.path and Wiki.move.
Ext == <<".", "m", "d">>

\* The content root, CONTENT_DIR: the relative directory `c`.
Root == <<"c">>

\* os.path.join(a, b) of posixpath.
PathJoin(a, b) ==
  IF StartsWith(b, <<"/">>) THEN b
  ELSE IF a = <<>> \/ a[Len(a)] = "/" THEN a \o b
  ELSE a \o <<"/">> \o b

\* The loop of posixpath.normpath over the components.
RECURSIVE NormComps(_, _, _)
NormComps(comps, acc, initialSlashes) ==
  IF comps = <<>> THEN acc
  ELSE LET comp == Head(comps)
           rest == Tail(comps)
       IN  IF comp = <<>> \/ comp = <<".">>
             THEN NormComps(rest, acc, initialSlashes)
           ELSE IF \/ comp # <<".", ".">>
                   \/ (initialSlashes = 0 /\ acc = <<>>)
                   \/ (acc # <<>> /\ acc[Len(acc)] = <<".", ".">>)
             THEN NormComps(rest, Append(acc, comp), initialSlashes)
           ELSE IF acc # <<>>
             THEN NormComps(rest, Take(acc, Len(acc) - 1), initialSlashes)
           ELSE NormComps(rest, acc, initialSlashes)

\* os.path.normpath of posixpath.
NormPath(path) ==
  IF path = <<>> THEN <<".">>
  ELSE LET initialSlashes ==
             IF ~StartsWith(path, <<"/">>) THEN 0
             ELSE IF StartsWith(path, <<"/", "/">>)
                     /\ ~StartsWith(path, <<"/", "/", "/">>) THEN 2
             ELSE 1
           joined == JoinSlash(NormComps(SplitSlash(path), <<>>, initialSlashes))
           full == IF initialSlashes = 2 THEN <<"/", "/">> \o joined
                   ELSE IF initialSlashes = 1 THEN <<"/">> \o joined
                   ELSE joined
       IN  IF full = <<>> THEN <<".">> ELSE full

\* os.path.dirname of posixpath: the head before the last slash, trailing
\* slashes stripped unless the head is only slashes.
RECURSIVE RStripSlash(_)
RStripSlash(s) ==
  IF s # <<>> /\ s[Len(s)] = "/" THEN RStripSlash(Take(s, Len(s) - 1)) ELSE s

DirName(path) ==
  LET slashes == {k \in 1..Len(path) : path[k] = "/"}
      i == IF slashes = {} THEN 0
           ELSE CHOOSE k \in slashes : \A j \in slashes : j <= k
      head == Take(path, i)
  IN  IF head # <<>> /\ \E k \in 1..Len(head) : head[k] # "/"
        THEN RStripSlash(head) ELSE head

\* os.path.commonprefix((a, b)): the longest common prefix, by characters.
RECURSIVE CommonPrefix(_, _)
CommonPrefix(a, b) ==
  IF a # <<>> /\ b # <<>> /\ Head(a) = Head(b)
    THEN <<Head(a)>> \o CommonPrefix(Tail(a), Tail(b))
    ELSE <<>>

\* -------------------------------------------------------------- records

\* Identifiers used as inputs: two pages of the root, a page of a
\* subdirectory, and two identifiers that climb out of the root through a
\* leading `../` (one into the sibling directory `c2`, whose name starts
\* with the root's name).  `..` appears only in front, where the directory
\* it is resolved against (the root) always exists, so that the operating
\* system resolves the path to the place normpath computes.
IdA == <<"a">>

IdB == <<"b">>

IdSub == <<"s", "/", "b">>

IdUp == <<".", ".", "/", "x">>

IdUpSibling == <<".", ".", "/", "c", "2", "/", "x">>

Nl == "\n"

Cr == "\r"

\* A metadata value is a string, or a list of strings as markdown's Meta
\* holds it.  `%s` of a string is the string; `%s` of a list is its repr,
\* [u'one', u'two'].
StrVal(s) == [kind |-> "str", s |-> s, items |-> <<>>]

ListVal(items) == [kind |-> "list", s |-> <<>>, items |-> items]

RECURSIVE ReprItems(_)
ReprItems(items) ==
  IF items = <<>> THEN <<>>
  ELSE <<"u", "'">> \o Head(items) \o <<"'">>
       \o (IF Len(items) > 1 THEN <<",", " ">> ELSE <<>>)
       \o ReprItems(Tail(items))

FormatValue(v) ==
  IF v.kind = "str" THEN v.s ELSE <<"[">> \o ReprItems(v.items) \o <<"]">>

\* body.replace('\r\n', '\n')
RECURSIVE ReplaceCrLf(_)
ReplaceCrLf(s) ==
  IF s = <<>> THEN <<>>
  ELSE IF Len(s) >= 2 /\ s[1] = Cr /\ s[2] = Nl
    THEN <<Nl>> \o ReplaceCrLf(Drop(s, 2))
  ELSE <<Head(s)>> \o ReplaceCrLf(Tail(s))

\* The texts Wiki.save hands to f.write, in order: one line per metadata
\* item (meta is the sequence of items() pairs), the blank line, the body.
RECURSIVE MetaLines(_)
MetaLines(meta) ==
  IF meta = <<>> THEN <<>>
  ELSE <<Head(meta)[1] \o <<":", " ">> \o FormatValue(Head(meta)[2]) \o <<Nl>>>>
       \o MetaLines(Tail(meta))

Chunks(body, meta) == MetaLines(meta) \o << <<Nl>>, ReplaceCrLf(body) >>

RECURSIVE Flatten(_)
Flatten(chunks) ==
  IF chunks = <<>> THEN <<>> ELSE Head(chunks) \o Flatten(Tail(chunks))

\* The complete file a save of (body, meta) writes.
Encode(body, meta) == Flatten(Chunks(body, meta))

TitleKey == <<"t", "i", "t", "l", "e">>

TagsKey == <<"t", "a", "g", "s">>

\* The page records used as inputs of save.
RecA == [body |-> <<"x">>, meta |-> << <<TitleKey, StrVal(<<"A">>)>> >>]

RecB == [body |-> <<"y">>, meta |-> << <<TitleKey, StrVal(<<"B">>)>> >>]

Records == {RecA, RecB}

\* The complete files: what a finished save of some record leaves.
WholeContents == {Encode(r.body, r.meta) : r \in Records}

\* ---------------------------------------------------------- file system

\* A file system is [files, dirs]: files maps the location of every
\* existing file to its content, dirs is the set of existing directories.
\* A location is the normalized path, relative to the working directory.
Loc(path) == NormPath(path)

Put(f, k, v) == [x \in (DOMAIN f) \cup {k} |-> IF x = k THEN v ELSE f[x]]

Remove(f, k) == [x \in (DOMAIN f) \ {k} |-> f[x]]

NoFiles == [x \in {} |-> <<>>]

\* os.path.exists
Exists(fs, path) == Loc(path) \in DOMAIN fs.files \/ Loc(path) \in fs.dirs

IsFile(fs, path) == Loc(path) \in DOMAIN fs.files

\* The directories on the way to a location, itself included.
Ancestors(loc) ==
  {Take(loc, k) : k \in {j \in 1..Len(loc) : j = Len(loc) \/ loc[j + 1] = "/"}}

\* os.makedirs(folder)
MakeDirs(fs, folder) == [fs EXCEPT !.dirs = @ \cup Ancestors(Loc(folder))]

\* open(path, 'w'): the file is created or truncated to nothing.
OpenW(fs, path) == [fs EXCEPT !.files = Put(@, Loc(path), <<>>)]

RECURSIVE Nuls(_)
Nuls(n) == IF n = 0 THEN <<>> ELSE <<"NUL">> \o Nuls(n - 1)

\* write(2) of `text` at offset `off` through a descriptor of its own: the
\* bytes from off on are overwritten, the file grows as needed, and a gap
\* left by another writer's truncation reads as NUL bytes.
WriteAt(content, off, text) ==
  LET padded == content \o Nuls(IF off > Len(content) THEN off - Len(content) ELSE 0)
  IN  Take(padded, off) \o text \o Drop(padded, off + Len(text))

\* A write through a descriptor whose file was unlinked meanwhile shows
\* nothing at the path.
WriteFile(fs, path, off, text) ==
  IF Loc(path) \in DOMAIN fs.files
    THEN [fs EXCEPT !.files = Put(@, Loc(path), WriteAt(@[Loc(path)], off, text))]
    ELSE fs

\* os.rename(source, target) of an existing file; an existing target file
\* is replaced.
Rename(fs, source, target) ==
  [fs EXCEPT !.files = Put(Remove(@, Loc(source)), Loc(target), @[Loc(source)])]

\* os.remove(path)
Unlink(fs, path) == [fs EXCEPT !.files = Remove(@, Loc(path))]

\* ---------------------------------------------------- results of a call

Pending == [out |-> "pending", text |-> <<>>]

Returned(v) == [out |-> v, text |-> <<>>]

ReturnedText(t) == [out |-> "text", text |-> t]

Raised(e) == [out |-> e, text |-> <<>>]

Errors == {"RuntimeError", "IOError", "OSError", "GitCommandError"}

\* ------------------------------------------------- the plain store (Wiki)

\* Wiki.path
WikiPath(url) == PathJoin(Root, url \o Ext)

\* Wiki.exists
WikiExists(fs, url) == Exists(fs, WikiPath(url))

\* What a file opened in mode 'rU' reads: \r\n and \r become \n.
RECURSIVE UniversalNewlines(_)
UniversalNewlines(s) ==
  IF s = <<>> THEN <<>>
  ELSE IF Len(s) >= 2 /\ s[1] = Cr /\ s[2] = Nl
    THEN <<Nl>> \o UniversalNewlines(Drop(s, 2))
  ELSE IF s[1] = Cr THEN <<Nl>> \o UniversalNewlines(Tail(s))
  ELSE <<Head(s)>> \o UniversalNewlines(Tail(s))

\* Wiki.load: the whole file as it is at the moment of the read.
WikiLoad(fs, url) ==
  IF IsFile(fs, WikiPath(url))
    THEN ReturnedText(UniversalNewlines(fs.files[Loc(WikiPath(url))]))
    ELSE Raised("IOError")

\* Wiki.save up to and including open(path, 'w'): the folder is created
\* when missing, then the page file is created or truncated in place.
WikiSaveOpen(fs, url) ==
  LET path == WikiPath(url)
      folder == DirName(path)
      fs1 == IF ~Exists(fs, folder) THEN MakeDirs(fs, folder) ELSE fs
  IN  OpenW(fs1, path)

\* Wiki.save run to its end without interruption.
WikiSave(fs, url, body, meta) ==
  [fs |-> WriteFile(WikiSaveOpen(fs, url), WikiPath(url), 0, Encode(body, meta)),
   res |-> Returned("none")]

\* The source and target paths of Wiki.move.
MoveSource(url) == PathJoin(Root, url) \o Ext

MoveTarget(newurl) == PathJoin(Root, newurl) \o Ext

\* The confinement test of Wiki.move: the common prefix, by characters, of
\* the normalized root and the normalized target is as long as the root.
Confined(newurl) ==
  LET root == NormPath(Root)
      common == CommonPrefix(root, NormPath(MoveTarget(newurl)))
  IN  ~(Len(common) < Len(root))

\* Wiki.move
WikiMove(fs, url, newurl) ==
  LET source == MoveSource(url)
      target == MoveTarget(newurl)
      folder == DirName(target)
      fs1 == IF ~Exists(fs, folder) THEN MakeDirs(fs, folder) ELSE fs
  IN  IF ~Confined(newurl) THEN [fs |-> fs, res |-> Raised("RuntimeError")]
      ELSE IF ~IsFile(fs1, source) THEN [fs |-> fs1, res |-> Raised("OSError")]
      ELSE [fs |-> Rename(fs1, source, target), res |-> Returned("none")]

\* Wiki.delete
WikiDelete(fs, url) ==
  IF ~WikiExists(fs, url) THEN [fs |-> fs, res |-> Returned("false")]
  ELSE [fs |-> Unlink(fs, WikiPath(url)), res |-> Returned("true")]

\* ------------------------------------------- the version-control client

\* The repository is the content root; the client runs there, so the
\* argument `url + '.md'` names a path relative to the root.  A repository
\* state is [fs, index, commits]: the working tree (within fs), the staged
\* files and the commits, each holding the tree it recorded.
GitLoc(arg) == Loc(PathJoin(Root, arg))

\* Whether a location lies in the root's directory tree.
InsideRoot(loc) == StartsWith(loc, NormPath(Root) \o <<"/">>)

HeadTree(commits) ==
  IF commits = <<>> THEN NoFiles ELSE commits[Len(commits)].tree

\* git add <arg>: stages the file as it is in the working tree, or its
\* removal when it is tracked and gone.  Fails for a path outside the
\* repository or one that matches no file.
GitAdd(g, arg) ==
  LET l == GitLoc(arg)
  IN  IF ~InsideRoot(l) THEN [g |-> g, ok |-> FALSE]
      ELSE IF l \in DOMAIN g.fs.files
        THEN [g |-> [g EXCEPT !.index = Put(@, l, g.fs.files[l])], ok |-> TRUE]
      ELSE IF l \in DOMAIN g.index
        THEN [g |-> [g EXCEPT !.index = Remove(@, l)], ok |-> TRUE]
      ELSE [g |-> g, ok |-> FALSE]

\* git commit -m <msg>: records the index; fails when the index equals the
\* head commit's tree (nothing to commit).
GitCommit(g, msg, author) ==
  IF g.index = HeadTree(g.commits) THEN [g |-> g, ok |-> FALSE]
  ELSE [g |-> [g EXCEPT !.commits =
                 Append(@, [tree |-> g.index, msg |-> msg, author |-> author])],
        ok |-> TRUE]

\* git mv <src> <dst>: renames a tracked file in the working tree and in
\* the index.  Fails, changing nothing, when a path is outside the
\* repository, the source is missing or untracked, the destination exists
\* or the destination's directory does not exist.
GitMv(g, src, dst) ==
  LET s == GitLoc(src)
      d == GitLoc(dst)
  IN  IF \/ ~InsideRoot(s) \/ ~InsideRoot(d)
         \/ s \notin DOMAIN g.fs.files \/ s \notin DOMAIN g.index
         \/ d \in DOMAIN g.fs.files \/ d \in g.fs.dirs
         \/ Loc(DirName(d)) \notin g.fs.dirs
        THEN [g |-> g, ok |-> FALSE]
      ELSE [g |-> [g EXCEPT !.fs = Rename(@, s, d),
                            !.index = Put(Remove(@, s), d, @[s])],
            ok |-> TRUE]

\* git rm <arg>: removes a tracked file from the working tree and the
\* index.  Fails, changing nothing, when the path is untracked or outside
\* the repository, when the file differs from the index, or when the index
\* differs from the head commit for it.
GitRm(g, arg) ==
  LET l == GitLoc(arg)
      head == HeadTree(g.commits)
  IN  IF \/ ~InsideRoot(l) \/ l \notin DOMAIN g.index
         \/ (l \in DOMAIN g.fs.files /\ g.fs.files[l] # g.index[l])
         \/ l \notin DOMAIN head
         \/ (l \in DOMAIN head /\ head[l] # g.index[l])
        THEN [g |-> g, ok |-> FALSE]
      ELSE [g |-> [g EXCEPT !.fs = [@ EXCEPT !.files = Remove(@, l)],
                            !.index = Remove(@, l)],
            ok |-> TRUE]

\* ------------------------------------------ the versioned store (WikiGit)

\* The author identity WikiGit.save synthesizes.
AuthorOf(author) ==
  LET a == IF author = <<>> THEN <<"a", "n", "o", "n", "y", "m", "o", "u", "s", "e">>
           ELSE author
  IN  a \o <<" ", "<">> \o a \o <<">">>

\* WikiGit.save run to its end, the client failing only for what it is
\* asked to do: Wiki.save, then add, then commit.
WikiGitSave(g, url, body, meta, author) ==
  LET g1 == [g EXCEPT !.fs = WikiSave(g.fs, url, body, meta).fs]
      a == GitAdd(g1, url \o Ext)
      c == GitCommit(a.g, "changed", AuthorOf(author))
  IN  IF ~a.ok THEN [g |-> a.g, res |-> Raised("GitCommandError")]
      ELSE IF ~c.ok THEN [g |-> c.g, res |-> Raised("GitCommandError")]
      ELSE [g |-> c.g, res |-> Returned("none")]

\* WikiGit.move: mv, then commit; no call of Wiki.move.
WikiGitMove(g, url, newurl) ==
  LET m == GitMv(g, url \o Ext, newurl \o Ext)
      c == GitCommit(m.g, "file moved", <<>>)
  IN  IF ~m.ok THEN [g |-> m.g, res |-> Raised("GitCommandError")]
      ELSE IF ~c.ok THEN [g |-> c.g, res |-> Raised("GitCommandError")]
      ELSE [g |-> c.g, res |-> Returned("none")]

\* WikiGit.delete: false when the page does not exist, else rm and commit.
WikiGitDelete_NoExistsCheck(g, url) ==
  LET r == GitRm(g, url \o Ext)
      c == GitCommit(r.g, "file deleted", <<>>)
  IN  IF ~r.ok THEN [g |-> r.g, res |-> Raised("GitCommandError")]
      ELSE IF ~c.ok THEN [g |-> c.g, res |-> Raised("GitCommandError")]
      ELSE [g |-> c.g, res |-> Returned("true")]

WikiGitDelete(g, url) ==
  LET r == GitRm(g, url \o Ext)
      c == GitCommit(r.g, "file deleted", <<>>)
  IN  IF ~WikiExists(g.fs, url) THEN [g |-> g, res |-> Returned("false")]
      ELSE IF ~r.ok THEN [g |-> r.g, res |-> Raised("GitCommandError")]
      ELSE IF ~c.ok THEN [g |-> c.g, res |-> Raised("GitCommandError")]
      ELSE [g |-> c.g, res |-> Returned("true")]

\* ------------------------------------------------------------------ state

\* The processes sharing one content root, the calls they may still
\* start, and the number of commits the repository starts with.
NumProcs == 2

MaxOps == 2

Procs == 1..NumProcs

NoProc == CHOOSE n \in 0..NumProcs : n \notin Procs

VARIABLES
  fs,        \* the file system: the working tree of the store and around it
  index,     \* the version-control index (staged files)
  commits,   \* the version-control commits, oldest first
  lock,      \* the process holding the content-root lock, or NoProc
  pc,        \* where each process is in the operation it called
  op,        \* the operation each process called last
  todo,      \* the texts a process's save has still to write
  res,       \* what each process's last call returned or raised
  snap,      \* the store as it was when the process's operation started
  opsLeft,   \* calls that may still be started
  twin,      \* a plain store run beside the versioned one
  twinRes,   \* what the last call on the plain twin returned or raised
  twinBefore, \* the plain twin before its last call
  found,     \* the results of the last search on both stores
  utable,    \* the account table file users.json (a mapping), or absent
  utmp,      \* the temporary file users.json-write
  ulock,     \* the process holding the account-table lock, or NoProc
  upc,       \* where each process is in its account operation
  uop,       \* the account operation each process called last
  ulocal,    \* the table a process has read and is changing
  ures,      \* what each process's last account operation returned or raised
  useen,     \* what a process's last read without the lock saw
  ulog       \* the table at the start, and the mutations in the order they
             \* took effect

storeVars == <<fs, index, commits, lock, pc, op, todo, res, snap, opsLeft>>

twinVars == <<twin, twinRes, twinBefore>>

userVars == <<utable, utmp, ulock, upc, uop, ulocal, ures, useen, ulog>>

vars == <<storeVars, twinVars, found, userVars>>

\* What a step of the stores leaves alone.
StoreOnly == UNCHANGED <<twinVars, found, userVars>>

NoOp == [kind |-> "none", url |-> <<>>, newurl |-> <<>>,
         body |-> <<>>, meta |-> <<>>, author |-> <<>>,
         offset |-> 0, limit |-> 0]

LoadOp(url) == [NoOp EXCEPT !.kind = "load", !.url = url]

SaveOp(url, r) ==
  [NoOp EXCEPT !.kind = "save", !.url = url, !.body = r.body, !.meta = r.meta]

MoveOp(url, newurl) ==
  [NoOp EXCEPT !.kind = "move", !.url = url, !.newurl = newurl]

DeleteOp(url) == [NoOp EXCEPT !.kind = "delete", !.url = url]

Repo == [fs |-> fs, index |-> index, commits |-> commits]

\* The file systems a run starts from: the root exists, the sibling
\* directory c2 may, and page `a` holds a complete record or is missing.
BaseDirs == {<<".">>, NormPath(Root)}

SiblingDir == <<"c", "2">>

LocA == Loc(WikiPath(IdA))

InitFileSystems ==
  {[files |-> f, dirs |-> BaseDirs \cup d] :
     f \in {NoFiles} \cup {Put(NoFiles, LocA, c) : c \in WholeContents},
     d \in {{}, {SiblingDir}}}

\* The parts of the state a specification does not use stay as they are
\* here.
IdleTwin ==
  /\ twin = [files |-> NoFiles, dirs |-> BaseDirs]
  /\ twinRes = Pending
  /\ twinBefore = twin

IdleSearch ==
  found = [asked |-> FALSE, term |-> <<>>, ic |-> TRUE, grepFailed |-> FALSE,
           plain |-> {}, git |-> {}]

\* The empty mapping {}.  A file is the mapping its JSON text holds, and
\* whether the text is whole: a text cut short is no JSON document.
NoUsers == [n \in {} |-> [active |-> TRUE]]

\* A file that does not exist.
Absent == [present |-> FALSE, users |-> NoUsers, whole |-> FALSE]

\* A file that holds the whole text of a mapping.
WholeFile(users) == [present |-> TRUE, users |-> users, whole |-> TRUE]

\* A file just opened for writing, or cut short.
PartialFile == [present |-> TRUE, users |-> NoUsers, whole |-> FALSE]

NoUserOp == [kind |-> "none", name |-> "", password |-> "", active |-> TRUE,
             roles |-> <<>>, method |-> "", salt |-> "", userdata |-> [active |-> TRUE],
             option |-> "", value |-> ""]

NothingSeen == [table |-> NoUsers, writing |-> FALSE]

IdleUsers ==
  /\ utable = Absent
  /\ utmp = Absent
  /\ ulock = NoProc
  /\ upc = [p \in Procs |-> "idle"]
  /\ uop = [p \in Procs |-> NoUserOp]
  /\ ulocal = [p \in Procs |-> NoUsers]
  /\ ures = [p \in Procs |-> "pending"]
  /\ useen = [p \in Procs |-> NothingSeen]
  /\ ulog = [start |-> NoUsers, ops |-> <<>>]

\* ------------------------------------------------ the steps of the stores

\* The interprocess lock of the decorator (fasteners.interprocess_locked,
\* named_locks.interprocess_lock): the call waits until no process holds
\* the lock file, runs the wrapped method holding it, and gives it up on
\* the way out, by return or by exception.
CanAcquire_NoExclusion(p) == TRUE

CanAcquire(p) == lock = NoProc

\* Where a process goes when the body of its operation ends: through the
\* decorator's release when it runs under the lock, else straight back.
Unwind_NoRelease(p, raised) ==
  IF lock = p /\ ~raised THEN "unlock" ELSE "idle"

Unwind(p, raised) == IF lock = p THEN "unlock" ELSE "idle"

\* The bytes a save has written so far: where its descriptor stands.
Offset(p) ==
  Len(Encode(op[p].body, op[p].meta)) - Len(Flatten(todo[p]))

Snapshot == [fs |-> fs, commits |-> commits]

\* The first step of the body of an operation.
FirstStep(o, versioned) ==
  CASE o.kind = "load" -> "load"
    [] o.kind = "save" -> "open"
    [] o.kind = "move" -> IF versioned THEN "mv" ELSE "move"
    [] o.kind = "delete" -> IF versioned THEN "exists" ELSE "delete"

\* The reader's and the writer's calls on the plain store.  One process
\* writes; the others only load.
Writer == CHOOSE p \in Procs : \A q \in Procs : p <= q

PlainOps ==
  {LoadOp(IdA)}
  \cup {SaveOp(u, r) : u \in {IdA, IdUp}, r \in Records}
  \cup {MoveOp(IdA, n) : n \in {IdB, IdSub, IdUp, IdUpSibling}}
  \cup {DeleteOp(IdA)}

\* A process calls an operation of the plain store: no lock, the body
\* starts at once.
PlainCall(p, o) ==
  /\ pc[p] = "idle"
  /\ opsLeft > 0
  /\ p = Writer \/ o.kind = "load"
  /\ opsLeft' = opsLeft - 1
  /\ op' = [op EXCEPT ![p] = o]
  /\ res' = [res EXCEPT ![p] = Pending]
  /\ snap' = [snap EXCEPT ![p] = Snapshot]
  /\ pc' = [pc EXCEPT ![p] = FirstStep(o, FALSE)]
  /\ UNCHANGED <<fs, index, commits, lock, todo>>
  /\ StoreOnly

\* Wiki.load
Load(p) ==
  /\ pc[p] = "load"
  /\ res' = [res EXCEPT ![p] = WikiLoad(fs, op[p].url)]
  /\ pc' = [pc EXCEPT ![p] = Unwind(p, res'[p].out \in Errors)]
  /\ UNCHANGED <<fs, index, commits, lock, op, todo, snap, opsLeft>>
  /\ StoreOnly

\* Wiki.save, lines 248-252: the folder, then open(path, 'w').
SaveOpen(p) ==
  /\ pc[p] = "open"
  /\ fs' = WikiSaveOpen(fs, op[p].url)
  /\ todo' = [todo EXCEPT ![p] = Chunks(op[p].body, op[p].meta)]
  /\ pc' = [pc EXCEPT ![p] = "write"]
  /\ UNCHANGED <<index, commits, lock, op, res, snap, opsLeft>>
  /\ StoreOnly

\* Wiki.save, lines 253-257: one f.write.
SaveWrite(p) ==
  /\ pc[p] = "write"
  /\ todo[p] # <<>>
  /\ fs' = WriteFile(fs, WikiPath(op[p].url), Offset(p), Head(todo[p]))
  /\ todo' = [todo EXCEPT ![p] = Tail(@)]
  /\ UNCHANGED <<index, commits, lock, pc, op, res, snap, opsLeft>>
  /\ StoreOnly

\* Wiki.save returns: the plain store is done, WikiGit.save goes on to add.
SaveClose(p) ==
  /\ pc[p] = "write"
  /\ todo[p] = <<>>
  /\ IF lock = p
       THEN /\ pc' = [pc EXCEPT ![p] = "add"]
            /\ res' = res
       ELSE /\ pc' = [pc EXCEPT ![p] = Unwind(p, FALSE)]
            /\ res' = [res EXCEPT ![p] = Returned("none")]
  /\ UNCHANGED <<fs, index, commits, lock, op, todo, snap, opsLeft>>
  /\ StoreOnly

\* open or a write raises (no space, no permission): the save ends with
\* the error, the file as the steps so far left it.
SaveFail(p) ==
  /\ pc[p] \in {"open", "write"}
  /\ todo' = [todo EXCEPT ![p] = <<>>]
  /\ res' = [res EXCEPT ![p] = Raised("IOError")]
  /\ pc' = [pc EXCEPT ![p] = Unwind(p, TRUE)]
  /\ UNCHANGED <<fs, index, commits, lock, op, snap, opsLeft>>
  /\ StoreOnly

\* The process is killed in the middle of a save of the plain store.
Crash(p) ==
  /\ pc[p] \in {"open", "write"}
  /\ lock # p
  /\ todo' = [todo EXCEPT ![p] = <<>>]
  /\ pc' = [pc EXCEPT ![p] = "crashed"]
  /\ UNCHANGED <<fs, index, commits, lock, op, res, snap, opsLeft>>
  /\ StoreOnly

\* Wiki.move
PlainMove(p) ==
  /\ pc[p] = "move"
  /\ LET m == WikiMove(fs, op[p].url, op[p].newurl)
     IN  /\ fs' = m.fs
         /\ res' = [res EXCEPT ![p] = m.res]
         /\ pc' = [pc EXCEPT ![p] = Unwind(p, m.res.out \in Errors)]
  /\ UNCHANGED <<index, commits, lock, op, todo, snap, opsLeft>>
  /\ StoreOnly

\* Wiki.delete
PlainDelete(p) ==
  /\ pc[p] = "delete"
  /\ LET d == WikiDelete(fs, op[p].url)
     IN  /\ fs' = d.fs
         /\ res' = [res EXCEPT ![p] = d.res]
         /\ pc' = [pc EXCEPT ![p] = Unwind(p, FALSE)]
  /\ UNCHANGED <<index, commits, lock, op, todo, snap, opsLeft>>
  /\ StoreOnly

\* The calls on the versioned store.
GitOps ==
  {LoadOp(IdA)}
  \cup {SaveOp(IdA, r) : r \in Records}
  \cup {MoveOp(IdA, n) : n \in {IdB, IdUp}}
  \cup {DeleteOp(IdA)}

\* A process calls a wrapped operation of the versioned store and waits
\* for the lock.
GitCall(p, o) ==
  /\ pc[p] = "idle"
  /\ opsLeft > 0
  /\ opsLeft' = opsLeft - 1
  /\ op' = [op EXCEPT ![p] = o]
  /\ res' = [res EXCEPT ![p] = Pending]
  /\ pc' = [pc EXCEPT ![p] = "lock"]
  /\ UNCHANGED <<fs, index, commits, lock, todo, snap>>
  /\ StoreOnly

\* The decorator takes the lock and the body starts.
Acquire(p) ==
  /\ pc[p] = "lock"
  /\ CanAcquire(p)
  /\ lock' = p
  /\ snap' = [snap EXCEPT ![p] = Snapshot]
  /\ pc' = [pc EXCEPT ![p] = FirstStep(op[p], TRUE)]
  /\ UNCHANGED <<fs, index, commits, op, todo, res, opsLeft>>
  /\ StoreOnly

\* The decorator gives the lock up.
Release(p) ==
  /\ pc[p] = "unlock"
  /\ lock' = NoProc
  /\ pc' = [pc EXCEPT ![p] = "idle"]
  /\ UNCHANGED <<fs, index, commits, op, todo, res, snap, opsLeft>>
  /\ StoreOnly

\* One call of the client by a wrapped operation: the repository after it,
\* and where the operation goes on when the call succeeded.
ClientStep(p, r, next, value) ==
  /\ fs' = r.g.fs
  /\ index' = r.g.index
  /\ commits' = r.g.commits
  /\ IF r.ok
       THEN IF next = "unlock"
              THEN /\ res' = [res EXCEPT ![p] = Returned(value)]
                   /\ pc' = [pc EXCEPT ![p] = Unwind(p, FALSE)]
              ELSE /\ res' = res
                   /\ pc' = [pc EXCEPT ![p] = next]
       ELSE /\ res' = [res EXCEPT ![p] = Raised("GitCommandError")]
            /\ pc' = [pc EXCEPT ![p] = Unwind(p, TRUE)]
  /\ UNCHANGED <<lock, op, todo, snap, opsLeft>>
  /\ StoreOnly

\* WikiGit.save: self.repo.add(url + '.md')
GitAddStep(p) ==
  /\ pc[p] = "add"
  /\ ClientStep(p, GitAdd(Repo, op[p].url \o Ext), "commit", "none")

\* WikiGit.move: self.repo.mv(url + '.md', newurl + '.md')
GitMvStep(p) ==
  /\ pc[p] = "mv"
  /\ ClientStep(p, GitMv(Repo, op[p].url \o Ext, op[p].newurl \o Ext),
                "commit", "none")

\* WikiGit.delete: the existence test, False when the page is missing.
GitExistsStep(p) ==
  /\ pc[p] = "exists"
  /\ IF WikiExists(fs, op[p].url)
       THEN /\ pc' = [pc EXCEPT ![p] = "rm"]
            /\ res' = res
       ELSE /\ pc' = [pc EXCEPT ![p] = Unwind(p, FALSE)]
            /\ res' = [res EXCEPT ![p] = Returned("false")]
  /\ UNCHANGED <<fs, index, commits, lock, op, todo, snap, opsLeft>>
  /\ StoreOnly

\* WikiGit.delete: self.repo.rm(url + '.md')
GitRmStep(p) ==
  /\ pc[p] = "rm"
  /\ ClientStep(p, GitRm(Repo, op[p].url \o Ext), "commit", "none")

\* The commit that ends save, move and delete.
CommitMessage(kind) ==
  CASE kind = "save" -> "changed"
    [] kind = "move" -> "file moved"
    [] kind = "delete" -> "file deleted"

GitCommitStep(p) ==
  /\ pc[p] = "commit"
  /\ ClientStep(p,
       GitCommit(Repo, CommitMessage(op[p].kind),
                 IF op[p].kind = "save" THEN AuthorOf(op[p].author) ELSE <<>>),
       "unlock",
       IF op[p].kind = "delete" THEN "true" ELSE "none")

\* The client fails for a reason of its own (no binary, a stale index
\* lock, no committer identity): the call raises and changes nothing.
GitFail(p) ==
  /\ pc[p] \in {"add", "commit", "mv", "rm"}
  /\ res' = [res EXCEPT ![p] = Raised("GitCommandError")]
  /\ pc' = [pc EXCEPT ![p] = Unwind(p, TRUE)]
  /\ UNCHANGED <<fs, index, commits, lock, op, todo, snap, opsLeft>>
  /\ StoreOnly

\* ------------------------------------------- the plain store, concurrent

InitPlain ==
  /\ fs \in InitFileSystems
  /\ index = NoFiles
  /\ commits = <<>>
  /\ lock = NoProc
  /\ pc = [p \in Procs |-> "idle"]
  /\ op = [p \in Procs |-> NoOp]
  /\ todo = [p \in Procs |-> <<>>]
  /\ res = [p \in Procs |-> Pending]
  /\ snap = [p \in Procs |-> Snapshot]
  /\ opsLeft = MaxOps
  /\ IdleTwin /\ IdleSearch /\ IdleUsers

NextPlain ==
  \E p \in Procs :
    \/ \E o \in PlainOps : PlainCall(p, o)
    \/ Load(p)
    \/ SaveOpen(p)
    \/ SaveWrite(p)
    \/ SaveClose(p)
    \/ SaveFail(p)
    \/ Crash(p)
    \/ PlainMove(p)
    \/ PlainDelete(p)

SpecPlain == InitPlain /\ [][NextPlain]_vars

\* --------------------------------------- the versioned store, concurrent

\* The repositories a run starts from: nothing committed yet, or the
\* pages of the working tree committed.
InitGit ==
  /\ fs \in {f \in InitFileSystems : SiblingDir \notin f.dirs}
  /\ index = fs.files
  /\ commits = IF fs.files = NoFiles THEN <<>>
               ELSE <<[tree |-> fs.files, msg |-> "changed", author |-> <<>>]>>
  /\ lock = NoProc
  /\ pc = [p \in Procs |-> "idle"]
  /\ op = [p \in Procs |-> NoOp]
  /\ todo = [p \in Procs |-> <<>>]
  /\ res = [p \in Procs |-> Pending]
  /\ snap = [p \in Procs |-> Snapshot]
  /\ opsLeft = MaxOps
  /\ IdleTwin /\ IdleSearch /\ IdleUsers

NextGit ==
  \E p \in Procs :
    \/ \E o \in GitOps : GitCall(p, o)
    \/ Acquire(p)
    \/ Load(p)
    \/ SaveOpen(p)
    \/ SaveWrite(p)
    \/ SaveClose(p)
    \/ SaveFail(p)
    \/ GitAddStep(p)
    \/ GitMvStep(p)
    \/ GitExistsStep(p)
    \/ GitRmStep(p)
    \/ GitCommitStep(p)
    \/ GitFail(p)
    \/ Release(p)

SpecGit == InitGit /\ [][NextGit]_vars

\* ------------------------------------------------ claims on the two stores

\* The positions between the start and the end of a wrapped operation.
BodyPcs == {"load", "open", "write", "add", "commit", "mv", "exists", "rm", "unlock"}

InBody(p) == pc[p] \in BodyPcs

\* C1: on the versioned store at most one wrapped operation (load, save,
\* move, delete) is between its start and its end at any time, and the
\* process running it is the one holding the content-root lock.
C1_MutualExclusion ==
  \A p \in Procs :
    InBody(p) => (lock = p /\ \A q \in Procs : InBody(q) => q = p)

\* One process is in the middle of its save while another has called an
\* operation and waits.
C1_Witness ==
  \E p, q \in Procs :
    p # q /\ pc[p] = "write" /\ todo[p] # <<>> /\ Offset(p) > 0 /\ pc[q] = "lock"

\* C2: when one save of an existing page of the plain store runs beside a
\* lock-free load of that page by another process, the load returns the
\* complete content from before the save or the complete new record, never
\* an empty or partly written file.
C2_LoadSeesWholeFile ==
  \A p \in Procs \ {Writer} :
    LET l == Loc(WikiPath(op[p].url))
    IN  ( /\ op[p].kind = "load" /\ res[p].out = "text"
          /\ op[Writer].kind = "save" /\ op[Writer].url = op[p].url
          /\ MaxOps - opsLeft = 2
          /\ l \in DOMAIN snap[Writer].fs.files )
        => res[p].text \in {snap[Writer].fs.files[l],
                            Encode(op[Writer].body, op[Writer].meta)}

\* C3: a save of an existing page that is interrupted, by a crash or by a
\* write error, leaves the page file with the content it had before.
C3_InterruptedSaveKeepsFile ==
  \A p \in Procs :
    LET l == Loc(WikiPath(op[p].url))
    IN  ( /\ op[p].kind = "save"
          /\ pc[p] = "crashed" \/ (pc[p] = "idle" /\ res[p].out = "IOError")
          /\ l \in DOMAIN snap[p].fs.files )
        => (l \in DOMAIN fs.files /\ fs.files[l] = snap[p].fs.files[l])

\* The saves of page `a` that have written their record to the end.
Savers ==
  {p \in Procs : /\ op[p].kind = "save" /\ op[p].url = IdA
                 /\ pc[p] = "idle"
                 /\ res[p].out \in {"none", "GitCommandError"}}

\* Every process is back from its call, and the last call of each that
\* made one is a save of page `a` written to the end.
OnlySavesDone ==
  \A p \in Procs : pc[p] = "idle" /\ (op[p].kind # "none" => p \in Savers)

\* C4: concurrent saves of one page on the versioned store never mix their
\* bytes: once two saves have finished the file is exactly the record of
\* one of them, and every commit holds whole records only.
C4_NoInterleavedSave ==
  /\ \A i \in 1..Len(commits) :
       \A l \in DOMAIN commits[i].tree : commits[i].tree[l] \in WholeContents
  /\ (OnlySavesDone /\ Cardinality(Savers) >= 2)
       => /\ LocA \in DOMAIN fs.files
          /\ \E p \in Savers : fs.files[LocA] = Encode(op[p].body, op[p].meta)

\* Two processes have each saved a different record of page `a` and both
\* saves were committed.
C4_Witness ==
  \E p, q \in Savers :
    /\ OnlySavesDone
    /\ op[p].body # op[q].body
    /\ res[p].out = "none" /\ res[q].out = "none"
    /\ Len(commits) >= 2

\* Whether the page file of an identifier lies outside the content root.
Escapes(url) == ~InsideRoot(Loc(WikiPath(url)))

\* The identifier an operation writes to.
Destination(o) == IF o.kind = "move" THEN o.newurl ELSE o.url

\* C5: on the plain store a move or a save to an identifier whose path
\* leaves the content root fails with the path-escape error and leaves the
\* file system as it was (calls that end with an I/O error of open or write,
\* or with the error of renaming a missing source, are left aside).
C5_EscapeRejected ==
  \A p \in Procs :
    ( /\ op[p].kind \in {"move", "save"}
      /\ Escapes(Destination(op[p]))
      /\ pc[p] = "idle" /\ res[p] # Pending
      /\ res[p].out \notin {"IOError", "OSError"} )
    => (res[p].out = "RuntimeError" /\ fs = snap[p].fs)

\* C7: the content-root lock is free once a wrapped operation has
\* returned, also when one of its steps raised: a process that is back
\* from its call does not hold the lock, and whoever holds it is inside an
\* operation.
C7_LockReleased ==
  /\ \A p \in Procs : pc[p] \in {"idle", "lock"} => lock # p
  /\ lock # NoProc => InBody(lock)

\* A call has ended with an error of one of its steps, and another process
\* holds the lock.
C7_Witness ==
  \E p, q \in Procs :
    /\ p # q
    /\ pc[p] = "idle" /\ res[p].out \in {"IOError", "GitCommandError"}
    /\ lock = q /\ InBody(q)

\* ------------------------------- the two stores side by side, sequential

\* One caller applies the same calls to a versioned store and to a plain
\* store that start from the same pages, each call run to its end, the
\* version-control client failing only for what it is asked to do.  The
\* caller is process 1: op[1] is the last call, res[1] what the versioned
\* store answered, snap[1] the versioned store before the call.
Caller == CHOOSE p \in Procs : \A q \in Procs : p <= q

EquivSaves == {SaveOp(u, r) : u \in {IdA, IdSub, IdUp}, r \in Records}

EquivMoves ==
  {MoveOp(IdA, n) : n \in {IdB, IdSub, IdUp, IdUpSibling}} \cup {MoveOp(IdB, IdA)}

EquivDeletes == {DeleteOp(u) : u \in {IdA, IdB}}

InitEquiv ==
  /\ fs \in InitFileSystems
  /\ index = fs.files
  /\ commits = IF fs.files = NoFiles THEN <<>>
               ELSE <<[tree |-> fs.files, msg |-> "changed", author |-> <<>>]>>
  /\ lock = NoProc
  /\ pc = [p \in Procs |-> "idle"]
  /\ op = [p \in Procs |-> NoOp]
  /\ todo = [p \in Procs |-> <<>>]
  /\ res = [p \in Procs |-> Pending]
  /\ snap = [p \in Procs |-> Snapshot]
  /\ opsLeft = MaxOps
  /\ twin = fs
  /\ twinRes = Pending
  /\ twinBefore = twin
  /\ IdleSearch /\ IdleUsers

\* The call `o` answered by both stores: v by the versioned one, t by the
\* plain one.
Both(o, v, t) ==
  /\ opsLeft > 0
  /\ opsLeft' = opsLeft - 1
  /\ op' = [op EXCEPT ![Caller] = o]
  /\ snap' = [snap EXCEPT ![Caller] = Snapshot]
  /\ fs' = v.g.fs
  /\ index' = v.g.index
  /\ commits' = v.g.commits
  /\ res' = [res EXCEPT ![Caller] = v.res]
  /\ twinBefore' = twin
  /\ twin' = t.fs
  /\ twinRes' = t.res
  /\ UNCHANGED <<lock, pc, todo, found, userVars>>

BothSave(o) ==
  Both(o, WikiGitSave(Repo, o.url, o.body, o.meta, o.author),
          WikiSave(twin, o.url, o.body, o.meta))

BothMove(o) ==
  Both(o, WikiGitMove(Repo, o.url, o.newurl), WikiMove(twin, o.url, o.newurl))

BothDelete(o) ==
  Both(o, WikiGitDelete(Repo, o.url), WikiDelete(twin, o.url))

NextEquiv ==
  \/ \E o \in EquivSaves : BothSave(o)
  \/ \E o \in EquivMoves : BothMove(o)
  \/ \E o \in EquivDeletes : BothDelete(o)

SpecEquiv == InitEquiv /\ [][NextEquiv]_vars

\* C6: on the versioned store a move of an existing page to an identifier
\* outside the content root fails with the path-escape error of the
\* confinement check, renames no file and creates no commit.
C6_VersionedMoveConfined ==
  ( /\ op[Caller].kind = "move"
    /\ Escapes(op[Caller].newurl)
    /\ Loc(WikiPath(op[Caller].url)) \in DOMAIN snap[Caller].fs.files )
    => /\ res[Caller].out = "RuntimeError"
       /\ fs = snap[Caller].fs
       /\ commits = snap[Caller].commits

\* C8: the plain and the versioned store are interchangeable: a move of an
\* existing page applied to both, from stores holding the same pages, returns the same
\* value or raises the same kind of error in both and leaves both with the
\* same page files, also when the destination's directory does not exist
\* yet or the destination lies outside the root.
C8_Interchangeable ==
  ( /\ op[Caller].kind = "move"
    /\ snap[Caller].fs.files = twinBefore.files
    /\ Loc(WikiPath(op[Caller].url)) \in DOMAIN twinBefore.files )
    => (res[Caller] = twinRes /\ fs.files = twin.files)

\* ------------------------------------------------------ pages and search

\* str.lower, over the letters the model's texts use.
LowerChar(c) ==
  CASE c = "A" -> "a" [] c = "B" -> "b" [] c = "C" -> "c"
    [] c = "X" -> "x" [] c = "Y" -> "y" [] c = "O" -> "o"
    [] c = "T" -> "t" [] c = "H" -> "h" [] OTHER -> c

RECURSIVE Lower(_)
Lower(t) == IF t = <<>> THEN <<>> ELSE <<LowerChar(Head(t))>> \o Lower(Tail(t))

\* str.strip of blanks
RECURSIVE Strip(_)
Strip(t) ==
  IF t # <<>> /\ Head(t) = " " THEN Strip(Tail(t))
  ELSE IF t # <<>> /\ t[Len(t)] = " " THEN Strip(Take(t, Len(t) - 1))
  ELSE t

\* The places where `part` starts in `t`.
Finds(t, part) ==
  {i \in 1..(Len(t) - Len(part) + 1) : SubSeq(t, i, i + Len(part) - 1) = part}

First(S) == CHOOSE i \in S : \A j \in S : i <= j

\* str.split('\n')
RECURSIVE Lines(_)
Lines(t) ==
  IF Finds(t, <<Nl>>) = {} THEN <<t>>
  ELSE LET i == First(Finds(t, <<Nl>>))
       IN  <<Take(t, i - 1)>> \o Lines(Drop(t, i))

\* Processors.out: the body is what follows the first blank line,
\* content.split('\n\n', 1)[1].
BodyOf(content) ==
  Drop(content, First(Finds(content, <<Nl, Nl>>)) + 1)

\* The metadata the renderer's header extension reads: the `key: value`
\* lines in front of the first blank line, keys in lower case, values
\* stripped, the values of a repeated key in a list.
RECURSIVE HeaderItems(_)
HeaderItems(lines) ==
  IF lines = <<>> \/ Strip(Head(lines)) = <<>> \/ Finds(Head(lines), <<":">>) = {}
       \/ First(Finds(Head(lines), <<":">>)) = 1
    THEN <<>>
    ELSE LET line == Head(lines)
             i == First(Finds(line, <<":">>))
         IN  << <<Lower(Strip(Take(line, i - 1))), Strip(Drop(line, i))>> >>
             \o HeaderItems(Tail(lines))

MetaOf(content) == HeaderItems(Lines(content))

\* meta[key] as Page.__getitem__ gives it: the one value of a key read
\* once, else the list; here the first value, and `missing` when the key is
\* absent (the KeyError of title and tags).
MetaGet(content, key, missing) ==
  LET items == MetaOf(content)
      at == {i \in 1..Len(items) : items[i][1] = key}
  IN  IF at = {} THEN missing ELSE items[First(at)][2]

\* Page.title, Page.tags, Page.body of the page loaded from `content`.
PageTitle(url, content) == MetaGet(content, TitleKey, url)

PageTags(url, content) == MetaGet(content, TagsKey, <<>>)

PageBody(url, content) == BodyOf(content)

\* Wiki.index: the identifiers of the record files under the root.
IndexUrls(tree) ==
  {Take(Drop(l, Len(NormPath(Root)) + 1), Len(l) - Len(NormPath(Root)) - 1 - Len(Ext)) :
     l \in {x \in DOMAIN tree.files :
              InsideRoot(x) /\ Len(x) > Len(Ext)
              /\ Drop(x, Len(x) - Len(Ext)) = Ext}}

\* regex.search(text) for a pattern of plain letters, with or without
\* re.IGNORECASE.
Matches(term, ignoreCase, text) ==
  IF ignoreCase THEN Finds(Lower(text), Lower(term)) # {}
  ELSE Finds(text, term) # {}

\* Wiki.search over title, tags and body: the pages with a match in one of
\* them (as a set: the order, that of index(), is left out).
WikiSearch(tree, term, ignoreCase) ==
  {u \in IndexUrls(tree) :
     LET content == UniversalNewlines(tree.files[Loc(WikiPath(u))])
     IN  \/ Matches(term, ignoreCase, PageTitle(u, content))
         \/ Matches(term, ignoreCase, PageTags(u, content))
         \/ Matches(term, ignoreCase, PageBody(u, content))}

\* git grep -G [-i] term: the tracked files of the working tree with a
\* line that matches.
GitGrep(g, term, ignoreCase) ==
  {u \in IndexUrls(g.fs) :
     LET l == Loc(WikiPath(u))
         lines == Lines(g.fs.files[l])
     IN  /\ l \in DOMAIN g.index
         /\ \E i \in 1..Len(lines) : Matches(term, ignoreCase, lines[i])}

\* The call WikiGit.search makes when grep raised: the inherited search
\* with the term alone.
FallbackSearch(tree, term, ignoreCase) == WikiSearch(tree, term, TRUE)

\* WikiGit.search: the pages grep names; when grep raises (the client
\* fails, or nothing matches and it exits with 1) the fallback.
WikiGitSearch(g, term, ignoreCase, clientFails) ==
  IF clientFails \/ GitGrep(g, term, ignoreCase) = {}
    THEN FallbackSearch(g.fs, term, ignoreCase)
    ELSE GitGrep(g, term, ignoreCase)

\* The content trees searched: pages `a` and `b`, each missing or holding
\* one of three records, all committed.
RecUpper == [body |-> <<"X">>, meta |-> << <<TitleKey, StrVal(<<"C">>)>> >>]

SearchRecords == Records \cup {RecUpper}

SearchTrees ==
  {[files |-> [l \in S |-> c[l]], dirs |-> BaseDirs] :
     S \in SUBSET {LocA, Loc(WikiPath(IdB))},
     c \in [{LocA, Loc(WikiPath(IdB))} -> {Encode(r.body, r.meta) : r \in SearchRecords}]}

SearchTerms == {<<"x">>, <<"X">>, <<"y">>, <<"c">>}

InitSearch ==
  /\ fs \in SearchTrees
  /\ index = fs.files
  /\ commits = IF fs.files = NoFiles THEN <<>>
               ELSE <<[tree |-> fs.files, msg |-> "changed", author |-> <<>>]>>
  /\ lock = NoProc
  /\ pc = [p \in Procs |-> "idle"]
  /\ op = [p \in Procs |-> NoOp]
  /\ todo = [p \in Procs |-> <<>>]
  /\ res = [p \in Procs |-> Pending]
  /\ snap = [p \in Procs |-> Snapshot]
  /\ opsLeft = 0
  /\ IdleSearch /\ IdleTwin /\ IdleUsers

\* search(term, ignoreCase) on the plain store and on the versioned store
\* over the same tree.
Search(term, ignoreCase, clientFails) ==
  /\ found' = [asked |-> TRUE, term |-> term, ic |-> ignoreCase,
               grepFailed |-> clientFails,
               plain |-> WikiSearch(fs, term, ignoreCase),
               git |-> WikiGitSearch(Repo, term, ignoreCase, clientFails)]
  /\ UNCHANGED <<storeVars, twinVars, userVars>>

NextSearch ==
  \E term \in SearchTerms, ignoreCase \in BOOLEAN, clientFails \in BOOLEAN :
    Search(term, ignoreCase, clientFails)

SpecSearch == InitSearch /\ [][NextSearch]_vars

\* C9: when the version-control grep fails, search(term, ignoreCase) of the
\* versioned store returns exactly the pages the plain store's
\* search(term, ignoreCase) returns, for ignoreCase true and false.
C9_FallbackSearchAgrees ==
  (found.asked /\ found.grepFailed) => found.git = found.plain

\* ------------------------------------------- the account store (UserManager)

\* hashlib.sha512 over salt[:32] + password + salt[32:], taken as free of
\* collisions: the digest stands for the salt and the password it was made
\* of.  The stored value is hexlify(salt) followed by the digest.
MakeSaltedHash(password, salt) ==
  [salt |-> salt, digest |-> <<salt, password>>]

\* get_default_authentication_method, DEFAULT_AUTHENTICATION_METHOD unset.
DefaultMethod == "cleartext"

\* The method add_user works with: None stands for the default.
MethodOf(o) == IF o.method = "None" THEN DefaultMethod ELSE o.method

\* The record add_user builds, lines 451-462.
NewUser(o) ==
  IF MethodOf(o) = "hash"
    THEN [active |-> o.active, roles |-> o.roles, authentication_method |-> "hash",
          hash |-> MakeSaltedHash(o.password, o.salt)]
    ELSE [active |-> o.active, roles |-> o.roles,
          authentication_method |-> MethodOf(o), password |-> o.password]

\* UserManager.read: {} when the file is missing, else the mapping the
\* JSON text holds (names to records of booleans, lists and strings, which
\* json.dumps and json.loads carry over unchanged).
ReadUsers(file) == IF file.present THEN file.users ELSE NoUsers

\* json.loads raises ValueError on a text that is not whole.
Readable(file) == ~file.present \/ file.whole

\* Python's truth value of a record: an empty dict counts as false.
Truthy(record) == DOMAIN record # {}

\* users.get(name) as a condition: the name is a key and its record is not
\* empty.
HasUser(users, name) == name \in DOMAIN users /\ Truthy(users[name])

\* What each mutating operation does to the mapping it has read, and what
\* it answers: "write" when it goes on to write the mapping.  delete_user
\* pops the name from its own copy whatever the record is, and writes only
\* when the record popped counts as true.
Modify(users, o) ==
  CASE o.kind = "add" ->
         IF HasUser(users, o.name) THEN [users |-> users, out |-> "false"]
         ELSE IF MethodOf(o) \notin {"hash", "cleartext"}
           THEN [users |-> users, out |-> "NotImplementedError"]
         ELSE [users |-> Put(users, o.name, NewUser(o)), out |-> "write"]
    [] o.kind = "delete" ->
         IF ~HasUser(users, o.name) THEN [users |-> users, out |-> "false"]
         ELSE [users |-> Remove(users, o.name), out |-> "write"]
    [] o.kind \in {"update", "set"} ->
         [users |-> Put(users, o.name, o.userdata), out |-> "write"]

\* What the operation returns once the table is written.
Written(o) ==
  CASE o.kind = "add" -> "user" [] o.kind = "delete" -> "true"
    [] o.kind \in {"update", "set"} -> "none"

\* The account-table lock of the decorator
\* fasteners.interprocess_locked(USER_LOCK_FILE).
CanAcquireUsers_NoExclusion(p) == TRUE

CanAcquireUsers(p) == ulock = NoProc

\* UserManager.write opens the temporary file for writing: the table file
\* stays as it is.
OpenForWrite_InPlace(table, tmp) == [table |-> PartialFile, tmp |-> PartialFile]

OpenForWrite(table, tmp) == [table |-> table, tmp |-> PartialFile]

AddOp(name, password, method, salt) ==
  [NoUserOp EXCEPT !.kind = "add", !.name = name, !.password = password,
                   !.method = method, !.salt = salt]

DeleteUserOp(name) == [NoUserOp EXCEPT !.kind = "delete", !.name = name]

UpdateOp(name, userdata) ==
  [NoUserOp EXCEPT !.kind = "update", !.name = name, !.userdata = userdata]

GetOp(name) == [NoUserOp EXCEPT !.kind = "get", !.name = name]

\* User.set(option, value) on the User that get_user(name) returned with the
\* record `data`: self.data[option] = value, then update(name, self.data).
SetOp(name, data, option, value) ==
  [NoUserOp EXCEPT !.kind = "set", !.name = name, !.option = option,
                   !.value = value, !.userdata = Put(data, option, value)]

UserNames == {"alice", "bob"}

Inactive == [active |-> FALSE, roles |-> <<>>,
             authentication_method |-> "cleartext", password |-> "s3cr3t"]

EmptyRecord == [k \in {} |-> ""]

UserOps ==
  {AddOp(n, "s3cr3t", m, "k1") : n \in UserNames, m \in {"None", "hash", "md5"}}
  \cup {DeleteUserOp(n) : n \in UserNames}
  \cup {UpdateOp(n, d) : n \in UserNames, d \in {Inactive, EmptyRecord}}

\* The options and values User.set is called with.
SetInputs == {<<"authentication_method", "hash">>, <<"password", "wrong">>}

UsersOnly == UNCHANGED <<fs, index, commits, lock, pc, op, todo, res, snap,
                         twinVars, found>>

\* A process calls add_user, delete_user or update and waits for the lock.
UserCall(p, o) ==
  /\ upc[p] = "idle"
  /\ opsLeft > 0
  /\ opsLeft' = opsLeft - 1
  /\ uop' = [uop EXCEPT ![p] = o]
  /\ ures' = [ures EXCEPT ![p] = "pending"]
  /\ upc' = [upc EXCEPT ![p] = "lock"]
  /\ UNCHANGED <<utable, utmp, ulock, ulocal, useen, ulog>>
  /\ UsersOnly

\* get_user(name): read without the lock, then users.get(name).
UserGet(p, name) ==
  /\ upc[p] = "idle"
  /\ opsLeft > 0
  /\ opsLeft' = opsLeft - 1
  /\ uop' = [uop EXCEPT ![p] = GetOp(name)]
  /\ IF Readable(utable)
       THEN /\ useen' = [useen EXCEPT ![p] =
                           [table |-> ReadUsers(utable),
                            writing |-> \E q \in Procs : upc[q] \in {"dump", "rename"}]]
            /\ ures' = [ures EXCEPT ![p] =
                          IF HasUser(ReadUsers(utable), name) THEN "user" ELSE "None"]
       ELSE /\ useen' = [useen EXCEPT ![p] = NothingSeen]
            /\ ures' = [ures EXCEPT ![p] = "ValueError"]
  /\ UNCHANGED <<utable, utmp, ulock, upc, ulocal, ulog>>
  /\ UsersOnly

\* User.set(option, value) on the User a get_user of this process returned:
\* the record it holds is the one read then.
UserSet(p, option, value) ==
  /\ upc[p] = "idle"
  /\ uop[p].kind = "get"
  /\ ures[p] = "user"
  /\ opsLeft > 0
  /\ opsLeft' = opsLeft - 1
  /\ uop' = [uop EXCEPT ![p] =
               SetOp(uop[p].name, useen[p].table[uop[p].name], option, value)]
  /\ ures' = [ures EXCEPT ![p] = "pending"]
  /\ upc' = [upc EXCEPT ![p] = "lock"]
  /\ UNCHANGED <<utable, utmp, ulock, ulocal, useen, ulog>>
  /\ UsersOnly

\* The decorator takes the account-table lock.
UserAcquire(p) ==
  /\ upc[p] = "lock"
  /\ CanAcquireUsers(p)
  /\ ulock' = p
  /\ upc' = [upc EXCEPT ![p] = "read"]
  /\ UNCHANGED <<utable, utmp, uop, ulocal, ures, useen, ulog, opsLeft>>
  /\ UsersOnly

\* users = self.read()
UserRead(p) ==
  /\ upc[p] = "read"
  /\ IF Readable(utable)
       THEN /\ ulocal' = [ulocal EXCEPT ![p] = ReadUsers(utable)]
            /\ upc' = [upc EXCEPT ![p] = "modify"]
            /\ ures' = ures
       ELSE /\ ulocal' = ulocal
            /\ upc' = [upc EXCEPT ![p] = "unlock"]
            /\ ures' = [ures EXCEPT ![p] = "ValueError"]
  /\ UNCHANGED <<utable, utmp, ulock, uop, useen, ulog, opsLeft>>
  /\ UsersOnly

\* The change to the mapping read, or the early return or raise.
UserModify(p) ==
  /\ upc[p] = "modify"
  /\ LET m == Modify(ulocal[p], uop[p])
     IN  /\ ulocal' = [ulocal EXCEPT ![p] = m.users]
         /\ IF m.out = "write"
              THEN /\ upc' = [upc EXCEPT ![p] = "write"]
                   /\ ures' = ures
              ELSE /\ upc' = [upc EXCEPT ![p] = "unlock"]
                   /\ ures' = [ures EXCEPT ![p] = m.out]
  /\ UNCHANGED <<utable, utmp, ulock, uop, useen, ulog, opsLeft>>
  /\ UsersOnly

\* UserManager.write, line 436: open(tmp_file, 'w').
UserOpenTmp(p) ==
  /\ upc[p] = "write"
  /\ LET o == OpenForWrite(utable, utmp)
     IN  /\ utable' = o.table
         /\ utmp' = o.tmp
  /\ upc' = [upc EXCEPT ![p] = "dump"]
  /\ UNCHANGED <<ulock, uop, ulocal, ures, useen, ulog, opsLeft>>
  /\ UsersOnly

\* UserManager.write, lines 437-439: the new table goes to the temporary
\* file, flushed and synced.
UserWriteTmp(p) ==
  /\ upc[p] = "dump"
  /\ utmp' = WholeFile(ulocal[p])
  /\ upc' = [upc EXCEPT ![p] = "rename"]
  /\ UNCHANGED <<utable, ulock, uop, ulocal, ures, useen, ulog, opsLeft>>
  /\ UsersOnly

\* UserManager.write, line 441: os.rename(tmp_file, self.file); the
\* operation returns.
UserRename(p) ==
  /\ upc[p] = "rename"
  /\ utmp.present
  /\ utable' = utmp
  /\ utmp' = Absent
  /\ ulog' = [ulog EXCEPT !.ops = Append(@, uop[p])]
  /\ ures' = [ures EXCEPT ![p] = Written(uop[p])]
  /\ upc' = [upc EXCEPT ![p] = "unlock"]
  /\ UNCHANGED <<ulock, uop, ulocal, useen, opsLeft>>
  /\ UsersOnly

\* Writing the temporary file or renaming it raises: the operation ends
\* with the error.
UserWriteFail(p) ==
  /\ upc[p] \in {"write", "dump", "rename"}
  /\ ures' = [ures EXCEPT ![p] = "IOError"]
  /\ upc' = [upc EXCEPT ![p] = "unlock"]
  /\ UNCHANGED <<utable, utmp, ulock, uop, ulocal, useen, ulog, opsLeft>>
  /\ UsersOnly

\* The process dies in the middle of UserManager.write: the system drops
\* the lock it held, the files stay as they are.
UserCrash(p) ==
  /\ upc[p] \in {"dump", "rename"}
  /\ upc' = [upc EXCEPT ![p] = "crashed"]
  /\ ures' = [ures EXCEPT ![p] = "crashed"]
  /\ ulock' = IF ulock = p THEN NoProc ELSE ulock
  /\ UNCHANGED <<utable, utmp, uop, ulocal, useen, ulog, opsLeft>>
  /\ UsersOnly

\* The decorator gives the account-table lock up.
UserRelease(p) ==
  /\ upc[p] = "unlock"
  /\ ulock' = NoProc
  /\ upc' = [upc EXCEPT ![p] = "idle"]
  /\ UNCHANGED <<utable, utmp, uop, ulocal, ures, useen, ulog, opsLeft>>
  /\ UsersOnly

\* The tables a run starts from: no file yet, or alice's account.
InitTables ==
  {Absent,
   WholeFile(Put(NoUsers, "alice", NewUser(AddOp("alice", "s3cr3t", "cleartext", "k1"))))}

InitUsers ==
  /\ fs = [files |-> NoFiles, dirs |-> BaseDirs]
  /\ index = NoFiles
  /\ commits = <<>>
  /\ lock = NoProc
  /\ pc = [p \in Procs |-> "idle"]
  /\ op = [p \in Procs |-> NoOp]
  /\ todo = [p \in Procs |-> <<>>]
  /\ res = [p \in Procs |-> Pending]
  /\ snap = [p \in Procs |-> Snapshot]
  /\ opsLeft = MaxOps
  /\ utable \in InitTables
  /\ utmp = Absent
  /\ ulock = NoProc
  /\ upc = [p \in Procs |-> "idle"]
  /\ uop = [p \in Procs |-> NoUserOp]
  /\ ulocal = [p \in Procs |-> NoUsers]
  /\ ures = [p \in Procs |-> "pending"]
  /\ useen = [p \in Procs |-> NothingSeen]
  /\ ulog = [start |-> ReadUsers(utable), ops |-> <<>>]
  /\ IdleTwin /\ IdleSearch

NextUsers ==
  \E p \in Procs :
    \/ \E o \in UserOps : UserCall(p, o)
    \/ \E n \in UserNames : UserGet(p, n)
    \/ \E i \in SetInputs : UserSet(p, i[1], i[2])
    \/ UserAcquire(p)
    \/ UserRead(p)
    \/ UserModify(p)
    \/ UserOpenTmp(p)
    \/ UserWriteTmp(p)
    \/ UserRename(p)
    \/ UserWriteFail(p)
    \/ UserCrash(p)
    \/ UserRelease(p)

SpecUsers == InitUsers /\ [][NextUsers]_vars

\* The table after the mutations of `ops` applied one after the other.
RECURSIVE ApplyAll(_, _)
ApplyAll(users, ops) ==
  IF ops = <<>> THEN users
  ELSE ApplyAll(Modify(users, Head(ops)).users, Tail(ops))

\* C10: add_user, delete_user and update run their whole read-modify-write
\* cycle under the account-table lock, so the table is always the result of
\* applying, one after the other, the mutations that took effect: none is
\* lost to a concurrent mutation of another account.
C10_AccountMutationsSerial ==
  /\ ReadUsers(utable) = ApplyAll(ulog.start, ulog.ops)
  /\ \A p \in Procs :
       upc[p] \in {"read", "modify", "write", "dump", "rename", "unlock"} => ulock = p

\* Two processes have each added an account of their own to a table that
\* held neither, and both accounts are in the table.
C10_Witness ==
  /\ \A p \in Procs : upc[p] = "idle"
  /\ ulog.start = NoUsers
  /\ \E p, q \in Procs :
       /\ p # q
       /\ ulog.ops = <<uop[p], uop[q]>>
       /\ uop[p].kind = "add" /\ uop[q].kind = "add"
       /\ uop[p].name # uop[q].name
       /\ DOMAIN ReadUsers(utable) = {uop[p].name, uop[q].name}

\* C11: the table file is replaced whole: it never holds a text cut short,
\* a get_user that runs without the lock beside a write reads a table that
\* the completed writes produced, and after a crash in the middle of a
\* write the table is what the completed writes left.
C11_AtomicTableWrites ==
  /\ utable.present => utable.whole
  /\ \A p \in Procs :
       (uop[p].kind = "get" /\ ures[p] # "pending") =>
         /\ ures[p] # "ValueError"
         /\ \E k \in 0..Len(ulog.ops) :
              useen[p].table = ApplyAll(ulog.start, Take(ulog.ops, k))
  /\ \A p \in Procs :
       upc[p] = "crashed" => ReadUsers(utable) = ApplyAll(ulog.start, ulog.ops)

\* A get_user has read the table while a write was under way, and the
\* writer died leaving the temporary file cut short beside the table.
C11_Witness ==
  \E p, q \in Procs :
    /\ p # q
    /\ uop[p].kind = "get" /\ ures[p] = "user" /\ useen[p].writing
    /\ upc[q] = "crashed"
    /\ utmp.present /\ ~utmp.whole
    /\ utable.present /\ utable.whole

\* The step by which an add_user call of p returns False or the new User.
AddReturns(p) ==
  /\ uop[p].kind = "add"
  /\ ures[p] = "pending"
  /\ ures'[p] \in {"false", "user"}

\* C12: add_user for a name that is a key of the table returns False and
\* leaves the table as it is, whatever the record under that name holds; for
\* a name that is no key it returns the User, adds exactly that record and
\* changes no other entry.
C12_AddUserDuplicate ==
  [][\A p \in Procs :
       AddReturns(p) =>
         LET old == ReadUsers(utable)
             new == ReadUsers(utable')
             name == uop[p].name
         IN  IF name \in DOMAIN old
               THEN ures'[p] = "false" /\ new = old
               ELSE /\ ures'[p] = "user"
                    /\ DOMAIN new = DOMAIN old \cup {name}
                    /\ \A n \in DOMAIN old : new[n] = old[n]]_vars

\* A record holds exactly one credential and it is the one its method tag
\* names.
CredentialMatchesTag(record) ==
  /\ "authentication_method" \in DOMAIN record
  /\ \/ /\ record.authentication_method = "cleartext"
        /\ "password" \in DOMAIN record
        /\ "hash" \notin DOMAIN record
     \/ /\ record.authentication_method = "hash"
        /\ "hash" \in DOMAIN record
        /\ "password" \notin DOMAIN record

\* C13: after any sequence of add_user, delete_user, update and User.set
\* calls every record of the table holds exactly one credential, the one
\* its method tag names.
C13_OneCredentialPerRecord ==
  \A n \in DOMAIN ReadUsers(utable) : CredentialMatchesTag(ReadUsers(utable)[n])

\* ------------------------------------------------ checking a password

\* check_hashed_password: the salt is read back from the first 128 hex
\* digits of the stored value (the 64 bytes add_user drew), the candidate is
\* hashed with it and the result compared with the stored value.
CheckHashedPassword_SaltOnly(password, salted) ==
  MakeSaltedHash(password, salted.salt).salt = salted.salt

CheckHashedPassword(password, salted) ==
  MakeSaltedHash(password, salted.salt) = salted

\* self.data.get('authentication_method', None), None replaced by the
\* default method.
TagOf(data) ==
  IF "authentication_method" \in DOMAIN data
    THEN data.authentication_method ELSE DefaultMethod

\* User.check_password, lines 521-534.  A record tagged hash that holds no
\* hash makes check_hashed_password slice None: TypeError.
CheckPassword(data, candidate) ==
  CASE TagOf(data) = "hash" ->
         IF "hash" \notin DOMAIN data THEN "TypeError"
         ELSE IF CheckHashedPassword(candidate, data.hash) THEN "true" ELSE "false"
    [] TagOf(data) = "cleartext" ->
         IF "password" \in DOMAIN data /\ data.password = candidate
           THEN "true" ELSE "false"
    [] OTHER -> "NotImplementedError"

CheckOp(name, candidate) ==
  [NoUserOp EXCEPT !.kind = "check", !.name = name, !.password = candidate]

\* get_user(name).check_password(candidate), as the login form does.
UserCheck(p, name, candidate) ==
  /\ upc[p] = "idle"
  /\ opsLeft > 0
  /\ opsLeft' = opsLeft - 1
  /\ uop' = [uop EXCEPT ![p] = CheckOp(name, candidate)]
  /\ IF Readable(utable)
       THEN /\ useen' = [useen EXCEPT ![p] =
                           [table |-> ReadUsers(utable),
                            writing |-> \E q \in Procs : upc[q] \in {"dump", "rename"}]]
            /\ ures' = [ures EXCEPT ![p] =
                          IF HasUser(ReadUsers(utable), name)
                            THEN CheckPassword(ReadUsers(utable)[name], candidate)
                            ELSE "None"]
       ELSE /\ useen' = [useen EXCEPT ![p] = NothingSeen]
            /\ ures' = [ures EXCEPT ![p] = "ValueError"]
  /\ UNCHANGED <<utable, utmp, ulock, upc, ulocal, ulog>>
  /\ UsersOnly

Secrets == {"s3cr3t", "wrong"}

\* Records as older tables hold them: one without a method tag, one tagged
\* with a method the code does not know.
Untagged == [active |-> TRUE, roles |-> <<>>, password |-> "s3cr3t"]

TaggedMd5 == [active |-> TRUE, roles |-> <<>>,
              authentication_method |-> "md5", password |-> "s3cr3t"]

AuthAdds ==
  {AddOp("alice", s, m, "k1") : s \in Secrets, m \in {"cleartext", "hash"}}
  \cup {AddOp("alice", "s3cr3t", m, "k1") : m \in {"None", "md5"}}

AuthOps == AuthAdds \cup {UpdateOp("alice", d) : d \in {Untagged, TaggedMd5}}

\* An add and the checks that follow it: one call more than the runs of
\* the stores.
AuthCalls == MaxOps + 1

InitAuth ==
  /\ fs = [files |-> NoFiles, dirs |-> BaseDirs]
  /\ index = NoFiles
  /\ commits = <<>>
  /\ lock = NoProc
  /\ pc = [p \in Procs |-> "idle"]
  /\ op = [p \in Procs |-> NoOp]
  /\ todo = [p \in Procs |-> <<>>]
  /\ res = [p \in Procs |-> Pending]
  /\ snap = [p \in Procs |-> Snapshot]
  /\ opsLeft = AuthCalls
  /\ utable = Absent
  /\ utmp = Absent
  /\ ulock = NoProc
  /\ upc = [p \in Procs |-> "idle"]
  /\ uop = [p \in Procs |-> NoUserOp]
  /\ ulocal = [p \in Procs |-> NoUsers]
  /\ ures = [p \in Procs |-> "pending"]
  /\ useen = [p \in Procs |-> NothingSeen]
  /\ ulog = [start |-> NoUsers, ops |-> <<>>]
  /\ IdleTwin /\ IdleSearch

NextAuth ==
  \E p \in Procs :
    \/ \E o \in AuthOps : UserCall(p, o)
    \/ \E c \in Secrets : UserCheck(p, "alice", c)
    \/ UserAcquire(p)
    \/ UserRead(p)
    \/ UserModify(p)
    \/ UserOpenTmp(p)
    \/ UserWriteTmp(p)
    \/ UserRename(p)
    \/ UserRelease(p)

SpecAuth == InitAuth /\ [][NextAuth]_vars

\* The record check_password ran on: the one get_user found.
Checked(p) == useen[p].table[uop[p].name]

ChecksDone(p) == uop[p].kind = "check" /\ ures[p] \notin {"pending", "None", "ValueError"}

\* C14: on a record that add_user built with method hash or cleartext from
\* the secret s, check_password(candidate) is true exactly when the
\* candidate is s.
C14_CheckPasswordExact ==
  \A p \in Procs : \A o \in AuthAdds :
    (ChecksDone(p) /\ MethodOf(o) \in {"hash", "cleartext"} /\ Checked(p) = NewUser(o))
    => /\ ures[p] \in {"true", "false"}
       /\ ures[p] = "true" <=> uop[p].password = o.password

\* alice was added with method hash and the password "s3cr3t"; one process
\* has checked "s3cr3t" and another "wrong".
C14_Witness ==
  \E p, q \in Procs :
    /\ ChecksDone(p) /\ ChecksDone(q)
    /\ Checked(p) = NewUser(AddOp("alice", "s3cr3t", "hash", "k1"))
    /\ Checked(q) = Checked(p)
    /\ uop[p].password = "s3cr3t" /\ ures[p] = "true"
    /\ uop[q].password = "wrong" /\ ures[q] = "false"

\* C15: check_password on a record whose method tag is neither cleartext
\* nor hash, a record without a tag included, raises the unknown-method
\* error for every candidate; add_user with such a method raises and leaves
\* the table as it is.
C15_UnknownMethodRejected ==
  /\ \A p \in Procs :
       (ChecksDone(p)
        /\ ("authentication_method" \notin DOMAIN Checked(p)
            \/ Checked(p).authentication_method \notin {"cleartext", "hash"}))
       => ures[p] = "NotImplementedError"
  /\ \A p \in Procs :
       (uop[p].kind = "add" /\ uop[p].method \notin {"None", "cleartext", "hash"}
        /\ ures[p] \notin {"pending", "false"})
       => /\ ures[p] = "NotImplementedError"
          /\ \A i \in 1..Len(ulog.ops) : ulog.ops[i] # uop[p]

\* ------------------------------------------ waiting for a lock that is held

\* A process stops for good inside a wrapped operation, the lock in its
\* hands (the client waits for an editor or for a remote file system).
Wedge(p) ==
  /\ lock = p
  /\ pc[p] \in BodyPcs \ {"unlock"}
  /\ pc' = [pc EXCEPT ![p] = "hung"]
  /\ UNCHANGED <<fs, index, commits, lock, op, todo, res, snap, opsLeft>>
  /\ StoreOnly

NextHang ==
  \/ NextGit
  \/ \E p \in Procs : Wedge(p)

SpecHang == InitGit /\ [][NextHang]_vars

\* The steps the code gives process p.
StepOf(p) ==
  \/ \E o \in GitOps : GitCall(p, o)
  \/ Acquire(p)
  \/ Load(p)
  \/ SaveOpen(p)
  \/ SaveWrite(p)
  \/ SaveClose(p)
  \/ SaveFail(p)
  \/ GitAddStep(p)
  \/ GitMvStep(p)
  \/ GitExistsStep(p)
  \/ GitRmStep(p)
  \/ GitCommitStep(p)
  \/ GitFail(p)
  \/ Release(p)

\* C16: a process that waits for the content-root lock while the holder
\* never releases it does not wait forever: it has a step by which its
\* operation ends with the lock-timeout error, no file changed.
C16_BoundedLockWait ==
  \A p \in Procs :
    (pc[p] = "lock" /\ lock # NoProc /\ pc[lock] = "hung") => ENABLED StepOf(p)

\* ------------------------------------------------ two writers of one page

\* The edit view, src/app.py:659-671: wiki.get(url) loads the page for the
\* form, and the form sent back is saved with page.save(wiki).  Every
\* writer loads the page once and then saves it once; no writer saves
\* before every writer has loaded, so that all of them edit the same
\* revision.
RecC == [body |-> <<"z">>, meta |-> << <<TitleKey, StrVal(<<"C">>)>> >>]

EditRecords == Records \cup {RecC}

\* The revision all writers load.
Revision == Encode(RecA.body, RecA.meta)

EditCalls == NumProcs + NumProcs

EditLoad(p) ==
  /\ op[p].kind = "none"
  /\ GitCall(p, LoadOp(IdA))

AllLoaded == \A q \in Procs : op[q].kind = "save" \/ (op[q].kind = "load" /\ pc[q] = "idle")

EditSave(p, r) ==
  /\ op[p].kind = "load"
  /\ res[p].out = "text"
  /\ AllLoaded
  /\ GitCall(p, SaveOp(IdA, r))

InitEdit ==
  /\ fs = [files |-> Put(NoFiles, LocA, Revision), dirs |-> BaseDirs]
  /\ index = fs.files
  /\ commits = <<[tree |-> fs.files, msg |-> "changed", author |-> <<>>]>>
  /\ lock = NoProc
  /\ pc = [p \in Procs |-> "idle"]
  /\ op = [p \in Procs |-> NoOp]
  /\ todo = [p \in Procs |-> <<>>]
  /\ res = [p \in Procs |-> Pending]
  /\ snap = [p \in Procs |-> Snapshot]
  /\ opsLeft = EditCalls
  /\ IdleTwin /\ IdleSearch /\ IdleUsers

NextEdit ==
  \E p \in Procs :
    \/ EditLoad(p)
    \/ \E r \in EditRecords : EditSave(p, r)
    \/ Acquire(p)
    \/ Load(p)
    \/ SaveOpen(p)
    \/ SaveWrite(p)
    \/ SaveClose(p)
    \/ GitAddStep(p)
    \/ GitCommitStep(p)
    \/ Release(p)

SpecEdit == InitEdit /\ [][NextEdit]_vars

\* Both p and q have saved and are back from their calls.
BothSaved(p, q) ==
  /\ p # q
  /\ op[p].kind = "save" /\ pc[p] = "idle" /\ res[p] # Pending
  /\ op[q].kind = "save" /\ pc[q] = "idle" /\ res[q] # Pending

\* C17: two writers that both loaded revision R and then saved one after
\* the other have both succeeded, each save made its commit, and the file
\* and the head commit hold the second writer's record alone.
C17_LastWriterWins ==
  \A p, q \in Procs :
    (BothSaved(p, q) /\ \A w \in Procs \ {p, q} : op[w].kind # "save") =>
      /\ res[p].out = "none" /\ res[q].out = "none"
      /\ Len(commits) = 3
      /\ \E first, second \in {p, q} :
           /\ first # second
           /\ commits[2].tree[LocA] = Encode(op[first].body, op[first].meta)
           /\ commits[3].tree[LocA] = Encode(op[second].body, op[second].meta)
           /\ fs.files[LocA] = Encode(op[second].body, op[second].meta)

\* ------------------------------------------------------------- delete

\* The page file the caller's delete names.
Deleted == Loc(WikiPath(op[Caller].url))

Nul == "NUL"

\* The decimal digits the abbreviated hash and the author time of the k-th
\* commit are written with.
Digits == <<"1", "2", "3", "4", "5", "6", "7", "8", "9">>

\* The commits that changed the file, newest first: what git log <path>
\* lists.
Touches(made, k, l) ==
  LET now == made[k].tree
      was == IF k = 1 THEN NoFiles ELSE made[k - 1].tree
  IN  (l \in DOMAIN now) # (l \in DOMAIN was)
      \/ (l \in DOMAIN now /\ l \in DOMAIN was /\ now[l] # was[l])

RECURSIVE Touching(_, _, _)
Touching(made, k, l) ==
  IF k = 0 THEN <<>>
  ELSE (IF Touches(made, k, l) THEN <<k>> ELSE <<>>) \o Touching(made, k - 1, l)

\* %an: the name part of the author identity `name <name>`.
AuthorName(author) ==
  IF Finds(author, <<" ", "<">>) = {} THEN author
  ELSE Take(author, First(Finds(author, <<" ", "<">>)) - 1)

\* One line of the log in the format "%h%x00%at%x00%an".
LogLine(made, k) ==
  <<"h", Digits[k], Nul, Digits[k], Nul>> \o AuthorName(made[k].author)

RECURSIVE JoinLines(_)
JoinLines(lines) ==
  IF lines = <<>> THEN <<>>
  ELSE IF Len(lines) = 1 THEN lines[1]
  ELSE lines[1] \o <<Nl>> \o JoinLines(Tail(lines))

\* self.repo.log(url + '.md', format=...): the text of the log, the last
\* newline stripped.  The client fails when the repository has no commit
\* and when the path is not in the working tree.
GitLog(g, arg) ==
  LET l == GitLoc(arg)
      ks == Touching(g.commits, Len(g.commits), l)
  IN  IF g.commits = <<>> \/ l \notin DOMAIN g.fs.files
        THEN [ok |-> FALSE, text |-> <<>>]
        ELSE [ok |-> TRUE,
              text |-> JoinLines([i \in 1..Len(ks) |-> LogLine(g.commits, ks[i])])]

\* str.split('\0')
RECURSIVE SplitNul(_)
SplitNul(t) ==
  IF Finds(t, <<Nul>>) = {} THEN <<t>>
  ELSE LET i == First(Finds(t, <<Nul>>))
       IN  <<Take(t, i - 1)>> \o SplitNul(Drop(t, i))

\* int(commit_timestamp) of a one-digit text.
ParseInt(t) == CHOOSE n \in 1..Len(Digits) : <<Digits[n]>> = t

\* Commit.from_gitlog: the fields data[0], data[1], data[2]; a line with
\* fewer fields makes the indexing fail.
FromGitlog(line) ==
  LET data == SplitNul(line)
  IN  IF Len(data) < 3 THEN [ok |-> FALSE, commit |-> <<>>]
      ELSE [ok |-> TRUE,
            commit |-> [commit |-> data[1], timestamp |-> ParseInt(data[2]),
                        author |-> data[3]]]

\* A slice bound as the list slice reads it: a negative bound counts from
\* the end, and every bound is clamped to the list.
SliceBound(n, len) ==
  LET m == IF n < 0 THEN n + len ELSE n
  IN  IF m < 0 THEN 0 ELSE IF m > len THEN len ELSE m

\* list[offset:limit]
Slice(list, offset, limit) ==
  LET lo == SliceBound(offset, Len(list))
      hi == SliceBound(limit, Len(list))
  IN  IF lo >= hi THEN <<>> ELSE SubSeq(list, lo + 1, hi)

\* WikiGit.history
WikiGitHistory(g, url, offset, limit) ==
  LET log == GitLog(g, url \o Ext)
      lines == Lines(log.text)
      parsed == [i \in 1..Len(lines) |-> FromGitlog(lines[i])]
  IN  IF ~log.ok THEN Raised("GitCommandError")
      ELSE IF \E i \in 1..Len(parsed) : ~parsed[i].ok THEN Raised("IndexError")
      ELSE [out |-> "list",
            text |-> Slice([i \in 1..Len(parsed) |-> parsed[i].commit], offset, limit)]

\* The longest run of saves a repository is built from.
MaxLog == 3

DefaultLimit == 5

\* What came before a call of history: saves of two pages, and a save whose
\* stage step failed, which leaves the page file written and untracked.
HistorySteps ==
  {[kind |-> k, url |-> u, rec |-> r] :
     k \in {"save"}, u \in {IdA, IdB}, r \in Records}
  \cup {[kind |-> "unstaged", url |-> IdB, rec |-> RecA]}

RECURSIVE StepSeqs(_)
StepSeqs(n) ==
  IF n = 0 THEN {<<>>}
  ELSE LET shorter == StepSeqs(n - 1)
       IN  shorter \cup {Append(q, x) : q \in shorter, x \in HistorySteps}

EmptyRepo == [fs |-> [files |-> NoFiles, dirs |-> BaseDirs],
              index |-> NoFiles, commits |-> <<>>]

RECURSIVE Build(_, _)
Build(g, steps) ==
  IF steps = <<>> THEN g
  ELSE LET x == Head(steps)
           g1 == IF x.kind = "save"
                   THEN WikiGitSave(g, x.url, x.rec.body, x.rec.meta, <<>>).g
                   ELSE [g EXCEPT !.fs = WikiSave(g.fs, x.url, x.rec.body, x.rec.meta).fs]
       IN  Build(g1, Tail(steps))

HistoryOp(url, offset, limit) ==
  [NoOp EXCEPT !.kind = "history", !.url = url, !.offset = offset, !.limit = limit]

HistoryInputs ==
  {HistoryOp(u, o, l) : u \in {IdA, IdB}, o \in (0 - 1)..MaxLog,
                        l \in (0 - 1)..MaxLog \cup {DefaultLimit}}

InitHistory ==
  /\ \E q \in StepSeqs(MaxLog) :
       LET g == Build(EmptyRepo, q)
       IN  fs = g.fs /\ index = g.index /\ commits = g.commits
  /\ lock = NoProc
  /\ pc = [p \in Procs |-> "idle"]
  /\ op = [p \in Procs |-> NoOp]
  /\ todo = [p \in Procs |-> <<>>]
  /\ res = [p \in Procs |-> Pending]
  /\ snap = [p \in Procs |-> Snapshot]
  /\ opsLeft = MaxOps
  /\ IdleTwin /\ IdleSearch /\ IdleUsers

\* history takes no lock and changes nothing.
History(p, o) ==
  /\ pc[p] = "idle"
  /\ opsLeft > 0
  /\ opsLeft' = opsLeft - 1
  /\ op' = [op EXCEPT ![p] = o]
  /\ res' = [res EXCEPT ![p] = WikiGitHistory(Repo, o.url, o.offset, o.limit)]
  /\ UNCHANGED <<fs, index, commits, lock, pc, todo, snap>>
  /\ StoreOnly

NextHistory == \E o \in HistoryInputs : History(Caller, o)

SpecHistory == InitHistory /\ [][NextHistory]_vars

\* The commit records of the file's log, newest first, read off the
\* commits themselves.
LogRecords(l) ==
  LET ks == Touching(commits, Len(commits), l)
  IN  [i \in 1..Len(ks) |->
         [commit |-> <<"h", Digits[ks[i]]>>, timestamp |-> ks[i],
          author |-> AuthorName(commits[ks[i]].author)]]

\* The records of a log at the positions i with offset <= i < limit,
\* counted from 0, in log order.
Positions(log, offset, limit) ==
  LET at == {i \in 1..Len(log) : offset <= i - 1 /\ i - 1 < limit}
  IN  IF at = {} THEN <<>>
      ELSE SubSeq(log, CHOOSE i \in at : \A k \in at : i <= k,
                       CHOOSE i \in at : \A k \in at : k <= i)

\* C19: history(id, offset, limit) returns the records at the positions i
\* of the file's log with offset <= i < limit, newest first, in log order,
\* and nothing else, for every offset and limit (default 0 and 5).
C19_HistorySlice ==
  \A p \in Procs :
    op[p].kind = "history" =>
      res[p] = [out |-> "list",
                text |-> Positions(LogRecords(Loc(WikiPath(op[p].url))),
                                   op[p].offset, op[p].limit)]

\* C20: for a file that has no commit history history returns the empty
\* sequence and raises no error.
C20_HistoryFailsSoftly ==
  \A p \in Procs :
    (op[p].kind = "history" /\ LogRecords(Loc(WikiPath(op[p].url))) = <<>>)
    => res[p] = [out |-> "list", text |-> <<>>]

\* ------------------------------------------- saving and reloading a page

\* The values the renderer's header extension collects for one key, in the
\* order of the header lines.
RECURSIVE ValuesOf(_, _)
ValuesOf(items, key) ==
  IF items = <<>> THEN <<>>
  ELSE (IF Head(items)[1] = key THEN <<Head(items)[2]>> ELSE <<>>)
       \o ValuesOf(Tail(items), key)

\* md.Meta: every key of the header with the list of its values.
MetaMapping(content) ==
  LET items == MetaOf(content)
  IN  [k \in {items[i][1] : i \in 1..Len(items)} |-> ValuesOf(items, k)]

\* Page.render over Processors.out: the body is content.split('\n\n', 1)[1],
\* which does not exist when the content has no blank line.
Render(url, content) ==
  IF Finds(content, <<Nl, Nl>>) = {} THEN Raised("IndexError")
  ELSE [out |-> "page", text |-> PageBody(url, content),
        title |-> PageTitle(url, content), tags |-> PageTags(url, content),
        meta |-> MetaMapping(content)]

\* Page.save with update: the engine saves body and metadata, then the
\* page is loaded and rendered again.
PageSave(tree, url, body, meta) ==
  LET saved == WikiSave(tree, url, body, meta)
      loaded == WikiLoad(saved.fs, url)
  IN  [fs |-> saved.fs,
       res |-> IF loaded.out = "text" THEN Render(url, loaded.text) ELSE loaded]

Today == <<"T", "o", "d", "a", "y">>

Hello == <<"H", "e", "l", "l", "o">>

\* The records saved: without metadata, with a title given as a string (as
\* the editor form sets it) and as a one-element list (as a loaded page
\* holds it), with title and tags; the bodies include one with a blank line.
RoundMetas ==
  { <<>>,
    << <<TitleKey, StrVal(Today)>> >>,
    << <<TitleKey, ListVal(<<Today>>)>> >>,
    << <<TitleKey, StrVal(Today)>>, <<TagsKey, StrVal(<<"a", ",", "b">>)>> >> }

RoundBodies == {Hello, <<"x">>, <<"x", Nl, Nl, "y">>}

PageSaveOp(url, body, meta) ==
  [NoOp EXCEPT !.kind = "pagesave", !.url = url, !.body = body, !.meta = meta]

RoundOps ==
  {PageSaveOp(u, b, m) : u \in {IdA, IdB, IdSub}, b \in RoundBodies, m \in RoundMetas}

InitRound ==
  /\ fs \in InitFileSystems
  /\ index = NoFiles
  /\ commits = <<>>
  /\ lock = NoProc
  /\ pc = [p \in Procs |-> "idle"]
  /\ op = [p \in Procs |-> NoOp]
  /\ todo = [p \in Procs |-> <<>>]
  /\ res = [p \in Procs |-> Pending]
  /\ snap = [p \in Procs |-> Snapshot]
  /\ opsLeft = MaxOps
  /\ IdleTwin /\ IdleSearch /\ IdleUsers

SaveAndReload(o) ==
  /\ opsLeft > 0
  /\ opsLeft' = opsLeft - 1
  /\ op' = [op EXCEPT ![Caller] = o]
  /\ fs' = PageSave(fs, o.url, o.body, o.meta).fs
  /\ res' = [res EXCEPT ![Caller] = PageSave(fs, o.url, o.body, o.meta).res]
  /\ UNCHANGED <<index, commits, lock, pc, todo, snap>>
  /\ StoreOnly

NextRound == \E o \in RoundOps : SaveAndReload(o)

SpecRound == InitRound /\ [][NextRound]_vars

\* The mapping a saved metadata stands for: every key with the list of its
\* values, a string being the list of that one string.
Canonical(meta) ==
  [k \in {meta[i][1] : i \in 1..Len(meta)} |->
     LET v == meta[CHOOSE i \in 1..Len(meta) : meta[i][1] = k][2]
     IN  IF v.kind = "str" THEN <<v.s>> ELSE v.items]

\* C21: saving a record whose metadata values hold no newline and loading
\* it again yields the same body and an equivalent metadata mapping, also
\* for a record without metadata and for one-element list values; for
\* metadata {title: ["Today"]} and body "Hello" the reloaded page has
\* title "Today", tags "" and body "Hello".
C21_SaveLoadRoundTrip ==
  op[Caller].kind = "pagesave" =>
    /\ res[Caller].out = "page"
    /\ res[Caller].text = op[Caller].body
    /\ res[Caller].meta = Canonical(op[Caller].meta)
    /\ (op[Caller].meta = << <<TitleKey, ListVal(<<Today>>)>> >> /\ op[Caller].body = Hello)
         => (res[Caller].title = Today /\ res[Caller].tags = <<>>)

\* --------------------------------------- identifiers and cross-references

Backslash == "\\"

\* re.sub('[ ]{2,}', ' ', url): a run of blanks becomes one blank.
RECURSIVE CollapseBlanks(_)
CollapseBlanks(t) ==
  IF t = <<>> THEN <<>>
  ELSE IF Len(t) >= 2 /\ t[1] = " " /\ t[2] = " " THEN CollapseBlanks(Tail(t))
  ELSE <<Head(t)>> \o CollapseBlanks(Tail(t))

\* str.replace of one character by another.
ReplaceChar(t, old, new) == [i \in 1..Len(t) |-> IF t[i] = old THEN new ELSE t[i]]

\* str.replace('\\\\', '/'): each pair of backslashes, from the left,
\* becomes one slash.
RECURSIVE ReplaceBackslashPairs(_)
ReplaceBackslashPairs(t) ==
  IF t = <<>> THEN <<>>
  ELSE IF Len(t) >= 2 /\ t[1] = Backslash /\ t[2] = Backslash
    THEN <<"/">> \o ReplaceBackslashPairs(Drop(t, 2))
  ELSE <<Head(t)>> \o ReplaceBackslashPairs(Tail(t))

\* Processors.clean_url
CleanUrl(url) ==
  LET stub1 == Strip(CollapseBlanks(url))
      stub2 == ReplaceChar(Lower(stub1), " ", "_")
  IN  ReplaceChar(ReplaceBackslashPairs(stub2), Backslash, "/")

\* The longest text typed into the create form.
MaxUrl == 3

UrlChars == {".", "/", Backslash, " ", "a", "A"}

RECURSIVE Texts(_, _)
Texts(chars, n) ==
  IF n = 0 THEN {<<>>}
  ELSE LET shorter == Texts(chars, n - 1)
       IN  shorter \cup {Append(t, c) : t \in shorter, c \in chars}

\* InputRequired: the field is not empty.
TypedUrls == Texts(UrlChars, MaxUrl) \ {<<>>}

CreateOp(url) == [NoOp EXCEPT !.kind = "create", !.url = url]

\* The create view: the form refuses the identifier of an existing page,
\* and the view passes the cleaned identifier on to the editor.
Create(raw) ==
  /\ opsLeft > 0
  /\ opsLeft' = opsLeft - 1
  /\ op' = [op EXCEPT ![Caller] = CreateOp(raw)]
  /\ res' = [res EXCEPT ![Caller] =
               IF WikiExists(fs, raw) THEN Raised("ValidationError")
               ELSE ReturnedText(CleanUrl(raw))]
  /\ UNCHANGED <<fs, index, commits, lock, pc, todo, snap>>
  /\ StoreOnly

\* The pattern of Processors.wikilink, read with re.X:
\*   ((?<!<code>)\[\[([^<].+?)\s*([|]\s*(.+?)\s*)?]])
\* `\s` is a blank or a newline, `.` anything but a newline.
IsSpace(c) == c = " " \/ c = Nl

CodeTag == <<"<", "c", "o", "d", "e", ">">>

\* Where `\s*` stops when what follows it is not white space: the first
\* place at or after r that holds none (Len(h) + 1 at the end of h).
SkipSpace(h, r) ==
  CHOOSE m \in r..(Len(h) + 1) :
    /\ \A x \in r..(m - 1) : IsSpace(h[x])
    /\ m <= Len(h) => ~IsSpace(h[m])

\* `\s*]]` matches at r.
Closes(h, r) ==
  LET m == SkipSpace(h, r)
  IN  m < Len(h) /\ h[m] = "]" /\ h[m + 1] = "]"

\* The ends of a label `(.+?)` starting at ls that let `\s*]]` follow.
LabelEnds(h, ls) ==
  {le \in ls..Len(h) : (\A x \in ls..le : h[x] # Nl) /\ Closes(h, le + 1)}

\* The starts of a label after the bar at q: `\s*` gives back blanks when
\* the label needs them.
LabelStarts(h, q) ==
  {ls \in (q + 1)..SkipSpace(h, q + 1) : LabelEnds(h, ls) # {}}

\* What follows a target ending at e matches: `\s*`, the optional label
\* part, `]]`.
HasLabel(h, e) ==
  LET q == SkipSpace(h, e + 1)
  IN  q <= Len(h) /\ h[q] = "|" /\ LabelStarts(h, q) # {}

RestMatches(h, e) == HasLabel(h, e) \/ Closes(h, e + 1)

\* The ends of a target `([^<].+?)` starting at t: two characters at least.
TargetEnds(h, t) ==
  {e \in (t + 1)..Len(h) :
     h[t] # "<" /\ (\A x \in (t + 1)..e : h[x] # Nl) /\ RestMatches(h, e)}

\* The pattern matches at i.
MatchAt(h, i) ==
  /\ i + 2 <= Len(h)
  /\ h[i] = "[" /\ h[i + 1] = "["
  /\ ~(i > Len(CodeTag) /\ SubSeq(h, i - Len(CodeTag), i - 1) = CodeTag)
  /\ TargetEnds(h, i + 2) # {}

\* The match at i: the lazy target is the shortest, the blanks before the
\* label the most, the lazy label the shortest; `to` is the last place of
\* the match.
Match(h, i) ==
  LET e == First(TargetEnds(h, i + 2))
      q == SkipSpace(h, e + 1)
      ls == CHOOSE x \in LabelStarts(h, q) : \A y \in LabelStarts(h, q) : y <= x
      le == First(LabelEnds(h, ls))
  IN  IF HasLabel(h, e)
        THEN [target |-> SubSeq(h, i + 2, e), label |-> SubSeq(h, ls, le),
              to |-> SkipSpace(h, le + 1) + 1]
        ELSE [target |-> SubSeq(h, i + 2, e), label |-> <<>>,
              to |-> SkipSpace(h, e + 1) + 1]

\* The first place at or after `from` where the pattern matches, 0 if none.
FirstMatch(h, from) ==
  IF \E i \in from..Len(h) : MatchAt(h, i)
    THEN First({i \in from..Len(h) : MatchAt(h, i)}) ELSE 0

\* compLink.findall(html)
RECURSIVE FindAll(_, _)
FindAll(h, from) ==
  IF FirstMatch(h, from) = 0 THEN <<>>
  ELSE LET m == Match(h, FirstMatch(h, from))
       IN  <<m>> \o FindAll(h, m.to + 1)

\* re.sub(compLink, repl, html, count=1), for a repl without backslashes.
SubFirst(h, repl) ==
  IF FirstMatch(h, 1) = 0 THEN h
  ELSE Take(h, FirstMatch(h, 1) - 1) \o repl \o Drop(h, Match(h, FirstMatch(h, 1)).to)

\* url_for('display', url=url) under the route /<path:url>/
UrlFor(url) == <<"/">> \o url \o <<"/">>

\* u"<a href='{0}'>{1}</a>".format(url, title)
FormattedLink(url, title) ==
  <<"<", "a", " ", "h", "r", "e", "f", "=", "'">> \o url \o <<"'", ">">>
  \o title \o <<"<", "/", "a", ">">>

RECURSIVE Substitute(_, _)
Substitute(h, links) ==
  IF links = <<>> THEN h
  ELSE LET i == Head(links)
           title == IF i.label # <<>> THEN i.label ELSE i.target
           url == CleanUrl(i.target)
       IN  Substitute(SubFirst(h, FormattedLink(UrlFor(url), title)), Tail(links))

\* Processors.wikilink
Wikilink(html) == Substitute(html, FindAll(html, 1))

\* The pieces an input is made of: plain text, and references with and
\* without a label.
Ref(target, label) == [target |-> target, label |-> label, text |-> <<>>]

Plain(text) == [target |-> <<>>, label |-> <<>>, text |-> text]

About == <<"a", "b", "o", "u", "t">>

TeamRoster == <<"t", "e", "a", "m", "/", "r", "o", "s", "t", "e", "r">>

OurTeam == <<"O", "u", "r", " ", "T", "e", "a", "m">>

Pieces ==
  {Plain(<<"x", " ">>), Ref(About, <<>>), Ref(TeamRoster, OurTeam),
   Ref(<<"a">>, <<>>), Ref(<<"a">>, <<"b">>), Ref(<<"A", " ", "b">>, <<>>)}

\* The most pieces in an input.
MaxPieces == 2

RECURSIVE PieceSeqs(_)
PieceSeqs(n) ==
  IF n = 0 THEN {<<>>}
  ELSE LET shorter == PieceSeqs(n - 1)
       IN  shorter \cup {Append(q, x) : q \in shorter, x \in Pieces}

PieceText(piece) ==
  IF piece.target = <<>> THEN piece.text
  ELSE <<"[", "[">> \o piece.target
       \o (IF piece.label # <<>> THEN <<"|">> \o piece.label ELSE <<>>)
       \o <<"]", "]">>

WikilinkOp(pieces) ==
  [NoOp EXCEPT !.kind = "wikilink", !.meta = pieces,
               !.body = Flatten([i \in 1..Len(pieces) |-> PieceText(pieces[i])])]

ResolveLinks(o) ==
  /\ opsLeft > 0
  /\ opsLeft' = opsLeft - 1
  /\ op' = [op EXCEPT ![Caller] = o]
  /\ res' = [res EXCEPT ![Caller] = ReturnedText(Wikilink(o.body))]
  /\ UNCHANGED <<fs, index, commits, lock, pc, todo, snap>>
  /\ StoreOnly

NextMarkup ==
  \/ \E raw \in TypedUrls : Create(raw)
  \/ \E q \in PieceSeqs(MaxPieces) : ResolveLinks(WikilinkOp(q))

SpecMarkup == InitRound /\ [][NextMarkup]_vars

\* C23: the identifier the create form passes on, the result of clean_url,
\* has no path segment equal to `..`, whatever was typed.
C23_NoParentSegment ==
  (op[Caller].kind = "create" /\ res[Caller].out = "text") =>
    \A i \in 1..Len(SplitSlash(res[Caller].text)) :
      SplitSlash(res[Caller].text)[i] # <<".", ".">>

\* What a piece of the input is to become: a reference the hyperlink to
\* its normalized target showing its label, or its raw target when it has
\* no label; plain text itself.
Resolved(piece) ==
  IF piece.target = <<>> THEN piece.text
  ELSE FormattedLink(UrlFor(CleanUrl(piece.target)),
                     IF piece.label # <<>> THEN piece.label ELSE piece.target)

\* C22: wikilink returns its input with the i-th reference, [[target]] or
\* [[target|label]], replaced by the hyperlink to the normalized i-th
\* target showing the i-th label (the raw target without a label), and all
\* other text unchanged; [[about]] links to about showing about, and
\* [[team/roster|Our Team]] links to team/roster showing Our Team.
C22_ReferencesResolved ==
  op[Caller].kind = "wikilink" =>
    res[Caller].text =
      Flatten([i \in 1..Len(op[Caller].meta) |-> Resolved(op[Caller].meta[i])])

\* ------------------------------------------------- confinement of a move

\* C24: the confinement check of move accepts a destination only when its
\* normalized path lies inside the content root: a move to a target outside
\* the root's directory tree is rejected with the path-escape error, also a
\* target in a sibling directory whose name starts with the root's name,
\* and a move that returns has put its file inside the root.
C24_MoveStaysInside ==
  \A p \in Procs :
    (op[p].kind = "move" /\ pc[p] = "idle" /\ res[p] # Pending) =>
      /\ ~InsideRoot(Loc(MoveTarget(op[p].newurl))) => res[p].out = "RuntimeError"
      /\ res[p].out = "none" =>
           /\ Confined(op[p].newurl)
           /\ InsideRoot(Loc(MoveTarget(op[p].newurl)))
           /\ Loc(MoveTarget(op[p].newurl)) \notin DOMAIN snap[p].fs.files
                => \A l \in DOMAIN fs.files \ DOMAIN snap[p].fs.files : InsideRoot(l)

\* ---------------------------------------------- the versioned store, whole

\* The page files of the working tree.
WorkingTree == [l \in {x \in DOMAIN fs.files : InsideRoot(x)} |-> fs.files[l]]

\* C25: whenever the content-root lock is free the versioned store is not
\* torn: every page file of the working tree is the file of the head
\* commit and nothing is staged but uncommitted, also after an operation
\* whose stage or commit step failed; and a save that returns has made
\* exactly one new commit, which holds the saved file.
C25_StoreNotTorn ==
  /\ lock = NoProc =>
       /\ \A l \in DOMAIN WorkingTree :
            l \in DOMAIN HeadTree(commits) /\ HeadTree(commits)[l] = WorkingTree[l]
       /\ index = HeadTree(commits)
  /\ \A p \in Procs :
       (op[p].kind = "save" /\ pc[p] = "unlock" /\ res[p].out = "none") =>
         /\ Len(commits) = Len(snap[p].commits) + 1
         /\ HeadTree(commits)[Loc(WikiPath(op[p].url))] = Encode(op[p].body, op[p].meta)

\* ------------------------------------------- changes through User objects

\* Each process gets a User and sets one option of it.
SetCalls == NumProcs + NumProcs

InitSetters ==
  /\ fs = [files |-> NoFiles, dirs |-> BaseDirs]
  /\ index = NoFiles
  /\ commits = <<>>
  /\ lock = NoProc
  /\ pc = [p \in Procs |-> "idle"]
  /\ op = [p \in Procs |-> NoOp]
  /\ todo = [p \in Procs |-> <<>>]
  /\ res = [p \in Procs |-> Pending]
  /\ snap = [p \in Procs |-> Snapshot]
  /\ opsLeft = SetCalls
  /\ utable \in InitTables
  /\ utmp = Absent
  /\ ulock = NoProc
  /\ upc = [p \in Procs |-> "idle"]
  /\ uop = [p \in Procs |-> NoUserOp]
  /\ ulocal = [p \in Procs |-> NoUsers]
  /\ ures = [p \in Procs |-> "pending"]
  /\ useen = [p \in Procs |-> NothingSeen]
  /\ ulog = [start |-> ReadUsers(utable), ops |-> <<>>]
  /\ IdleTwin /\ IdleSearch

NextSetters ==
  \E p \in Procs :
    \/ \E n \in UserNames : UserGet(p, n)
    \/ \E i \in SetInputs : UserSet(p, i[1], i[2])
    \/ UserAcquire(p)
    \/ UserRead(p)
    \/ UserModify(p)
    \/ UserOpenTmp(p)
    \/ UserWriteTmp(p)
    \/ UserRename(p)
    \/ UserRelease(p)

SpecSetters == InitSetters /\ [][NextSetters]_vars

\* The set of process p has been written and has returned.
SetDone(p) == uop[p].kind = "set" /\ upc[p] = "idle" /\ ures[p] # "pending"

\* C26: when two processes have each got a User of the same account and
\* set different options of it, the stored record holds both new values
\* once both calls have returned.
C26_NoLostSet ==
  \A p, q \in Procs :
    ( /\ p # q /\ SetDone(p) /\ SetDone(q)
      /\ uop[p].name = uop[q].name /\ uop[p].option # uop[q].option )
    => LET record == ReadUsers(utable)[uop[p].name]
       IN  /\ record[uop[p].option] = uop[p].value
           /\ record[uop[q].option] = uop[q].value

\* ------------------------------------------------------------- tag views

\* str.split(',')
RECURSIVE SplitComma(_)
SplitComma(t) ==
  IF Finds(t, <<",">>) = {} THEN <<t>>
  ELSE LET i == First(Finds(t, <<",">>))
       IN  <<Take(t, i - 1)>> \o SplitComma(Drop(t, i))

\* page.tags of the page index() loads for an identifier.
TagsOfPage(tree, u) ==
  PageTags(u, UniversalNewlines(tree.files[Loc(WikiPath(u))]))

\* Wiki.get_tags, read at one tag: the pages listed under it, those with
\* the tag among the stripped, non-empty parts of their tags (as a set:
\* the order of index() is left out).
GetTags(tree, tag) ==
  {u \in IndexUrls(tree) :
     LET parts == SplitComma(TagsOfPage(tree, u))
     IN  tag # <<>> /\ \E i \in 1..Len(parts) : Strip(parts[i]) = tag}

\* Wiki.index_by_tag: the pages with `tag in page.tags`, a test for a
\* substring of the tags text.
IndexByTag(tree, tag) ==
  {u \in IndexUrls(tree) : tag = <<>> \/ Finds(TagsOfPage(tree, u), tag) # {}}

Java == <<"j", "a", "v", "a">>

\* The tags of the pages of a tree: none, one tag, two tags.
TagTexts == {<<>>, Java, <<"a">>, <<"a", ",", " ", "b">>, Java \o <<",", "b">>}

Tagged(text) ==
  Encode(<<"x">>,
         IF text = <<>> THEN << <<TitleKey, StrVal(<<"A">>)>> >>
         ELSE << <<TitleKey, StrVal(<<"A">>)>>, <<TagsKey, StrVal(text)>> >>)

TagTrees ==
  {[files |-> [l \in S |-> c[l]], dirs |-> BaseDirs] :
     S \in SUBSET {LocA, Loc(WikiPath(IdB))},
     c \in [{LocA, Loc(WikiPath(IdB))} -> {Tagged(t) : t \in TagTexts}]}

AskedTags == {<<"a">>, <<"b">>, Java}

TagOp(tag) == [NoOp EXCEPT !.kind = "tag", !.body = tag]

InitTags ==
  /\ fs \in TagTrees
  /\ index = NoFiles
  /\ commits = <<>>
  /\ lock = NoProc
  /\ pc = [p \in Procs |-> "idle"]
  /\ op = [p \in Procs |-> NoOp]
  /\ todo = [p \in Procs |-> <<>>]
  /\ res = [p \in Procs |-> Pending]
  /\ snap = [p \in Procs |-> Snapshot]
  /\ opsLeft = MaxOps
  /\ IdleTwin /\ IdleSearch /\ IdleUsers

\* The tag view and the tags view asked for the same tag over the same
\* tree.
TagViews(tag) ==
  /\ opsLeft > 0
  /\ opsLeft' = opsLeft - 1
  /\ op' = [op EXCEPT ![Caller] = TagOp(tag)]
  /\ res' = [res EXCEPT ![Caller] =
               [out |-> "pages", text |-> <<>>,
                tagged |-> IndexByTag(fs, tag), listed |-> GetTags(fs, tag)]]
  /\ UNCHANGED <<fs, index, commits, lock, pc, todo, snap>>
  /\ StoreOnly

NextTags == \E tag \in AskedTags : TagViews(tag)

SpecTags == InitTags /\ [][NextTags]_vars

\* C27: for every tree and every tag t, index_by_tag(t) returns exactly
\* the pages get_tags() lists under t, the pages that have t as a whole
\* tag; a page tagged only java is not returned for t = a.
C27_TagViewsAgree ==
  op[Caller].kind = "tag" => res[Caller].tagged = res[Caller].listed

====
